---- MODULE Spec2Model ----
(***************************************************************************)
(* Model of the manifest instance resolver of edu-jslab                    *)
(* (src/lib/manifest-loader.js, resolveInstances), of the manifest file    *)
(* operations loadManifest and updateManifestDate, and of a run of the     *)
(* command line (src/index.js, src/lib/app-generator.js).                  *)
(*                                                                         *)
(* JavaScript values are modelled by records of one shape,                 *)
(*     [t |-> tag, s |-> string, a |-> sequence of values]                 *)
(* with tags undef, null, str, num, arr and obj.  An object keeps the two  *)
(* properties the resolver reads, a = <<source, destination>>; an array    *)
(* keeps its elements in a.  Strings that the resolver takes apart         *)
(* (pattern keys, role prefixes, instance names) are sequences of          *)
(* one-character strings.                                                  *)
(***************************************************************************)
EXTENDS Integers, Sequences, FiniteSets, TLC

VARIABLES instances, spec, resolved, outcome, manifest, options, dist, pc, log, calls

vars == <<instances, spec, resolved, outcome, manifest, options, dist, pc, log, calls>>

-----------------------------------------------------------------------------
(* Bounds of the model                                                     *)

\* longest pattern map (number of keys) drawn as an input
MaxKeys == 3
\* largest instance count drawn for a role
MaxCount == 2
\* longest legacy apps sequence drawn
MaxSeq == 2

-----------------------------------------------------------------------------
(* JavaScript values                                                       *)

Undef == [t |-> "undef", s |-> "", a |-> <<>>]
Null == [t |-> "null", s |-> "", a |-> <<>>]
Str(x) == [t |-> "str", s |-> x, a |-> <<>>]
\* a non-zero number; s holds its decimal text
Num(x) == [t |-> "num", s |-> x, a |-> <<>>]
Arr(elems) == [t |-> "arr", s |-> "", a |-> elems]
Obj(source, destination) == [t |-> "obj", s |-> "", a |-> <<source, destination>>]

\* ToBoolean: undefined, null, "" and 0 are falsy; arrays and objects are truthy
Truthy(v) ==
    CASE v.t = "undef" -> FALSE
      [] v.t = "null" -> FALSE
      [] v.t = "str" -> v.s /= ""
      [] v.t = "num" -> v.s /= "0"
      [] OTHER -> TRUE

IsArray(v) == v.t = "arr"
TypeofString(v) == v.t = "str"
\* v.source and v.destination; reading a property of undefined or null throws
CanRead(v) == v.t \notin {"undef", "null"}
SourceOf(v) == IF v.t = "obj" THEN v.a[1] ELSE Undef
DestinationOf(v) == IF v.t = "obj" THEN v.a[2] ELSE Undef
\* x || y
OrElse(x, y) == IF Truthy(x) THEN x ELSE y

\* arr.map((e) => ({ source: e, destination }))
MapRefs(elems, destination) ==
    [i \in 1..Len(elems) |-> [source |-> elems[i], destination |-> destination]]

\* the result of a step that may throw a TypeError
Ok(x) == [ok |-> TRUE, val |-> x]
Throw(x) == [ok |-> FALSE, val |-> x]

-----------------------------------------------------------------------------
(* Strings that are taken apart: sequences of characters                   *)

DigitChars == <<"0", "1", "2", "3", "4", "5", "6", "7", "8", "9">>

RECURSIVE NumberToString(_)
\* `${i}` for an integer i >= 0
NumberToString(i) ==
    IF i < 10 THEN <<DigitChars[i + 1]>>
    ELSE NumberToString(i \div 10) \o <<DigitChars[(i % 10) + 1]>>

\* pattern.includes("*")
Includes(pattern, ch) == \E i \in 1..Len(pattern) : pattern[i] = ch

\* pattern.replace("*", ""): removes the first occurrence only
ReplaceFirst(pattern, ch) ==
    IF ~Includes(pattern, ch) THEN pattern
    ELSE LET i == CHOOSE j \in 1..Len(pattern) :
                      /\ pattern[j] = ch
                      /\ \A k \in 1..(j - 1) : pattern[k] /= ch
         IN  SubSeq(pattern, 1, i - 1) \o SubSeq(pattern, i + 1, Len(pattern))

\* `${prefix}${i}`
InstanceName(prefix, i) == prefix \o NumberToString(i)

-----------------------------------------------------------------------------
(* The result Map: entries [name, inst] in insertion order                 *)

EmptyInstance == [apps |-> <<>>, files |-> <<>>, datagen |-> Null]

\* resolved.has(name)
Has(m, name) == \E i \in 1..Len(m) : m[i].name = name
IndexOf(m, name) == CHOOSE i \in 1..Len(m) : m[i].name = name
\* resolved.get(name)
Get(m, name) == m[IndexOf(m, name)].inst
\* if (!resolved.has(name)) resolved.set(name, { apps: [], files: [], datagen: null })
EnsureInstance(m, name) ==
    IF Has(m, name) THEN m ELSE Append(m, [name |-> name, inst |-> EmptyInstance])
\* in-place mutation of the object held by the Map
Put(m, name, inst) == [m EXCEPT ![IndexOf(m, name)].inst = inst]
Keys(m) == {m[i].name : i \in 1..Len(m)}

-----------------------------------------------------------------------------
(* Role-wildcard branch of the first pass (lines 96-163) *)

RECURSIVE AppGroupsWildcard(_, _, _)
\* for (const appGroup of config.apps) { if (appGroup.source) push(...) }
AppGroupsWildcard(groups, k, apps) ==
    IF k > Len(groups) THEN Ok(apps)
    ELSE LET appGroup == groups[k] IN
         IF ~CanRead(appGroup) THEN Throw(apps)
         ELSE IF Truthy(SourceOf(appGroup))
              THEN IF ~IsArray(SourceOf(appGroup)) THEN Throw(apps)
                   ELSE AppGroupsWildcard(groups, k + 1,
                            apps \o MapRefs(SourceOf(appGroup).a,
                                            OrElse(DestinationOf(appGroup), Str("apps"))))
              ELSE AppGroupsWildcard(groups, k + 1, apps)

\* variant: the legacy branch leaves the destination of its entries undefined
AppsWildcard_LegacyNoDefault(apps, config) ==
    IF ~Truthy(config.apps) THEN Ok(apps)
    ELSE IF IsArray(config.apps)
         THEN IF Len(config.apps.a) > 0 /\ TypeofString(config.apps.a[1])
              THEN Ok(apps \o MapRefs(config.apps.a, Undef))
              ELSE AppGroupsWildcard(config.apps.a, 1, apps)
         ELSE IF Truthy(SourceOf(config.apps))
              THEN IF ~IsArray(SourceOf(config.apps)) THEN Throw(apps)
                   ELSE Ok(apps \o MapRefs(SourceOf(config.apps).a,
                                           OrElse(DestinationOf(config.apps), Str("apps"))))
              ELSE Ok(apps)

\* if (config.apps) { array of strings | array of objects | single object }
AppsWildcard(apps, config) ==
    IF ~Truthy(config.apps) THEN Ok(apps)
    ELSE IF IsArray(config.apps)
         THEN IF Len(config.apps.a) > 0 /\ TypeofString(config.apps.a[1])
              THEN Ok(apps \o MapRefs(config.apps.a, Str("apps")))
              ELSE AppGroupsWildcard(config.apps.a, 1, apps)
         ELSE IF Truthy(SourceOf(config.apps))
              THEN IF ~IsArray(SourceOf(config.apps)) THEN Throw(apps)
                   ELSE Ok(apps \o MapRefs(SourceOf(config.apps).a,
                                           OrElse(DestinationOf(config.apps), Str("apps"))))
              ELSE Ok(apps)

\* variant: only a sequence source is taken, a scalar source is passed over
FilesWildcard_SequenceOnly(files, config) ==
    IF ~Truthy(config.files) THEN files
    ELSE LET destination == OrElse(DestinationOf(config.files), Str("system/local")) IN
         IF IsArray(SourceOf(config.files))
         THEN files \o MapRefs(SourceOf(config.files).a, destination)
         ELSE files

\* if (config.files) { source array | source string }
FilesWildcard(files, config) ==
    IF ~Truthy(config.files) THEN files
    ELSE LET destination == OrElse(DestinationOf(config.files), Str("system/local")) IN
         IF IsArray(SourceOf(config.files))
         THEN files \o MapRefs(SourceOf(config.files).a, destination)
         ELSE IF TypeofString(SourceOf(config.files))
              THEN Append(files, [source |-> SourceOf(config.files),
                                  destination |-> destination])
              ELSE files

\* const datagenConfig = config.datagens || config.datagen; array | object with source
DatagenWildcard(datagen, config) ==
    LET datagenConfig == OrElse(config.datagens, config.datagen) IN
    IF ~Truthy(datagenConfig) THEN datagen
    ELSE IF IsArray(datagenConfig) THEN Obj(datagenConfig, Null)
         ELSE IF Truthy(SourceOf(datagenConfig))
              THEN Obj(SourceOf(datagenConfig), DestinationOf(datagenConfig))
              ELSE datagen

\* the body applied to one instance: apps, then files, then datagen
ApplyWildcard(existing, config) ==
    LET r == AppsWildcard(existing.apps, config) IN
    IF ~r.ok THEN Throw(existing)
    ELSE Ok([apps |-> r.val,
             files |-> FilesWildcard(existing.files, config),
             datagen |-> DatagenWildcard(existing.datagen, config)])

-----------------------------------------------------------------------------
(* Exact-key branch of the first pass (lines 173-238) *)

RECURSIVE AppGroupsExact(_, _, _)
\* for (const appGroup of config.apps) { if (appGroup.source) push(...) }
AppGroupsExact(groups, k, apps) ==
    IF k > Len(groups) THEN Ok(apps)
    ELSE LET appGroup == groups[k] IN
         IF ~CanRead(appGroup) THEN Throw(apps)
         ELSE IF Truthy(SourceOf(appGroup))
              THEN IF ~IsArray(SourceOf(appGroup)) THEN Throw(apps)
                   ELSE AppGroupsExact(groups, k + 1,
                            apps \o MapRefs(SourceOf(appGroup).a,
                                            OrElse(DestinationOf(appGroup), Str("apps"))))
              ELSE AppGroupsExact(groups, k + 1, apps)

\* variant: the exact branch assigns the apps list instead of appending to it
AppsExact_Overwrites(apps, config) ==
    IF ~Truthy(config.apps) THEN Ok(apps)
    ELSE IF IsArray(config.apps)
         THEN IF Len(config.apps.a) > 0 /\ TypeofString(config.apps.a[1])
              THEN Ok(MapRefs(config.apps.a, Str("apps")))
              ELSE AppGroupsExact(config.apps.a, 1, <<>>)
         ELSE IF Truthy(SourceOf(config.apps))
              THEN IF ~IsArray(SourceOf(config.apps)) THEN Throw(apps)
                   ELSE Ok(MapRefs(SourceOf(config.apps).a,
                                   OrElse(DestinationOf(config.apps), Str("apps"))))
              ELSE Ok(apps)

\* if (config.apps) { array of strings | array of objects | single object }
AppsExact(apps, config) ==
    IF ~Truthy(config.apps) THEN Ok(apps)
    ELSE IF IsArray(config.apps)
         THEN IF Len(config.apps.a) > 0 /\ TypeofString(config.apps.a[1])
              THEN Ok(apps \o MapRefs(config.apps.a, Str("apps")))
              ELSE AppGroupsExact(config.apps.a, 1, apps)
         ELSE IF Truthy(SourceOf(config.apps))
              THEN IF ~IsArray(SourceOf(config.apps)) THEN Throw(apps)
                   ELSE Ok(apps \o MapRefs(SourceOf(config.apps).a,
                                           OrElse(DestinationOf(config.apps), Str("apps"))))
              ELSE Ok(apps)

\* if (config.files) { source array | source string }
FilesExact(files, config) ==
    IF ~Truthy(config.files) THEN files
    ELSE LET destination == OrElse(DestinationOf(config.files), Str("system/local")) IN
         IF IsArray(SourceOf(config.files))
         THEN files \o MapRefs(SourceOf(config.files).a, destination)
         ELSE IF TypeofString(SourceOf(config.files))
              THEN Append(files, [source |-> SourceOf(config.files),
                                  destination |-> destination])
              ELSE files

\* variant: under an exact key only the sequence form of datagen is taken
DatagenExact_SequenceOnly(datagen, config) ==
    LET datagenConfig == OrElse(config.datagens, config.datagen) IN
    IF ~Truthy(datagenConfig) THEN datagen
    ELSE IF IsArray(datagenConfig) THEN Obj(datagenConfig, Null)
         ELSE datagen

\* const datagenConfig = config.datagens || config.datagen; array | object with source
DatagenExact(datagen, config) ==
    LET datagenConfig == OrElse(config.datagens, config.datagen) IN
    IF ~Truthy(datagenConfig) THEN datagen
    ELSE IF IsArray(datagenConfig) THEN Obj(datagenConfig, Null)
         ELSE IF Truthy(SourceOf(datagenConfig))
              THEN Obj(SourceOf(datagenConfig), DestinationOf(datagenConfig))
              ELSE datagen

\* the body applied to one instance: apps, then files, then datagen
ApplyExact(existing, config) ==
    LET r == AppsExact(existing.apps, config) IN
    IF ~r.ok THEN Throw(existing)
    ELSE Ok([apps |-> r.val,
             files |-> FilesExact(existing.files, config),
             datagen |-> DatagenExact(existing.datagen, config)])

-----------------------------------------------------------------------------
(* Second pass: the global wildcard (lines 247-316) *)

RECURSIVE AppGroupsGlobal_StopsAtSourceless(_, _, _)
\* variant: the loop ends at the first object without a source (break for continue)
AppGroupsGlobal_StopsAtSourceless(groups, k, apps) ==
    IF k > Len(groups) THEN Ok(apps)
    ELSE LET appGroup == groups[k] IN
         IF ~CanRead(appGroup) THEN Throw(apps)
         ELSE IF Truthy(SourceOf(appGroup))
              THEN IF ~IsArray(SourceOf(appGroup)) THEN Throw(apps)
                   ELSE AppGroupsGlobal_StopsAtSourceless(groups, k + 1,
                            apps \o MapRefs(SourceOf(appGroup).a,
                                            OrElse(DestinationOf(appGroup), Str("apps"))))
              ELSE Ok(apps)

RECURSIVE AppGroupsGlobal(_, _, _)
\* for (const appGroup of globalConfig.apps) { if (appGroup.source) push(...) }
AppGroupsGlobal(groups, k, apps) ==
    IF k > Len(groups) THEN Ok(apps)
    ELSE LET appGroup == groups[k] IN
         IF ~CanRead(appGroup) THEN Throw(apps)
         ELSE IF Truthy(SourceOf(appGroup))
              THEN IF ~IsArray(SourceOf(appGroup)) THEN Throw(apps)
                   ELSE AppGroupsGlobal(groups, k + 1,
                            apps \o MapRefs(SourceOf(appGroup).a,
                                            OrElse(DestinationOf(appGroup), Str("apps"))))
              ELSE AppGroupsGlobal(groups, k + 1, apps)

\* if (globalConfig.apps) { array of strings | array of objects | single object }
AppsGlobal(apps, config) ==
    IF ~Truthy(config.apps) THEN Ok(apps)
    ELSE IF IsArray(config.apps)
         THEN IF Len(config.apps.a) > 0 /\ TypeofString(config.apps.a[1])
              THEN Ok(apps \o MapRefs(config.apps.a, Str("apps")))
              ELSE AppGroupsGlobal(config.apps.a, 1, apps)
         ELSE IF Truthy(SourceOf(config.apps))
              THEN IF ~IsArray(SourceOf(config.apps)) THEN Throw(apps)
                   ELSE Ok(apps \o MapRefs(SourceOf(config.apps).a,
                                           OrElse(DestinationOf(config.apps), Str("apps"))))
              ELSE Ok(apps)

\* if (globalConfig.files) { source array | source string }
FilesGlobal(files, config) ==
    IF ~Truthy(config.files) THEN files
    ELSE LET destination == OrElse(DestinationOf(config.files), Str("system/local")) IN
         IF IsArray(SourceOf(config.files))
         THEN files \o MapRefs(SourceOf(config.files).a, destination)
         ELSE IF TypeofString(SourceOf(config.files))
              THEN Append(files, [source |-> SourceOf(config.files),
                                  destination |-> destination])
              ELSE files

\* variant: the global block sets the datagen slot only when it is still empty
DatagenGlobal_KeepsSpecific(datagen, config) ==
    LET datagenConfig == OrElse(config.datagens, config.datagen) IN
    IF ~Truthy(datagenConfig) \/ datagen.t /= "null" THEN datagen
    ELSE IF IsArray(datagenConfig) THEN Obj(datagenConfig, Null)
         ELSE IF Truthy(SourceOf(datagenConfig))
              THEN Obj(SourceOf(datagenConfig), DestinationOf(datagenConfig))
              ELSE datagen

\* const datagenConfig = globalConfig.datagens || globalConfig.datagen; array | object with source
DatagenGlobal(datagen, config) ==
    LET datagenConfig == OrElse(config.datagens, config.datagen) IN
    IF ~Truthy(datagenConfig) THEN datagen
    ELSE IF IsArray(datagenConfig) THEN Obj(datagenConfig, Null)
         ELSE IF Truthy(SourceOf(datagenConfig))
              THEN Obj(SourceOf(datagenConfig), DestinationOf(datagenConfig))
              ELSE datagen

\* variant: the second pass leaves the files of the global block out
ApplyGlobal_NoFiles(existing, config) ==
    LET r == AppsGlobal(existing.apps, config) IN
    IF ~r.ok THEN Throw(existing)
    ELSE Ok([apps |-> r.val,
             files |-> existing.files,
             datagen |-> DatagenGlobal(existing.datagen, config)])

\* the body applied to one instance: apps, then files, then datagen
ApplyGlobal(existing, config) ==
    LET r == AppsGlobal(existing.apps, config) IN
    IF ~r.ok THEN Throw(existing)
    ELSE Ok([apps |-> r.val,
             files |-> FilesGlobal(existing.files, config),
             datagen |-> DatagenGlobal(existing.datagen, config)])

-----------------------------------------------------------------------------
(* The inputs: the pattern map and the role-count spec                     *)

\* A pattern map is the sequence of its [key, config] members as declared.
\* A spec is [t, hasInstances, instances]: t = "undef" when the manifest has no
\* spec, hasInstances = FALSE when spec has no instances member, and instances
\* is the sequence of its [role, count] members.

IsDigit(ch) == \E i \in 1..10 : DigitChars[i] = ch
DigitValue(ch) == (CHOOSE i \in 1..10 : DigitChars[i] = ch) - 1

\* an integer-like property name (an array index): canonical decimal text
IsIndexKey(key) ==
    /\ Len(key) > 0
    /\ \A i \in 1..Len(key) : IsDigit(key[i])
    /\ (Len(key) = 1 \/ key[1] /= "0")

RECURSIVE IndexValue(_)
IndexValue(key) ==
    IF Len(key) = 0 THEN 0
    ELSE 10 * IndexValue(SubSeq(key, 1, Len(key) - 1)) + DigitValue(key[Len(key)])

RECURSIVE SortByIndex(_)
\* entries with integer-like keys, in ascending numeric order
SortByIndex(entries) ==
    IF Len(entries) = 0 THEN <<>>
    ELSE LET i == CHOOSE j \in 1..Len(entries) :
                      \A k \in 1..Len(entries) :
                          IndexValue(entries[j].key) <= IndexValue(entries[k].key)
         IN  <<entries[i]>> \o
             SortByIndex(SubSeq(entries, 1, i - 1) \o SubSeq(entries, i + 1, Len(entries)))

\* Object.entries(instances): integer-like keys first in ascending order, then
\* the other keys in the order they were declared
ObjectEntries(decl) ==
    SortByIndex(SelectSeq(decl, LAMBDA e : IsIndexKey(e.key)))
        \o SelectSeq(decl, LAMBDA e : ~IsIndexKey(e.key))

\* const instanceCounts = spec?.instances || {}
InstanceCounts(sp) ==
    IF sp.t = "obj" /\ sp.hasInstances THEN sp.instances ELSE <<>>

\* instanceCounts[prefix] is defined
HasCount(instanceCounts, prefix) ==
    \E i \in 1..Len(instanceCounts) : instanceCounts[i].role = prefix
\* instanceCounts[prefix]
CountOf(instanceCounts, prefix) ==
    instanceCounts[CHOOSE i \in 1..Len(instanceCounts) :
                       instanceCounts[i].role = prefix].count

\* instances["*"] is truthy: the key is declared (a block is an object)
HasGlobal(decl) == \E i \in 1..Len(decl) : decl[i].key = <<"*">>
GlobalConfig(decl) == decl[CHOOSE i \in 1..Len(decl) : decl[i].key = <<"*">>].config

-----------------------------------------------------------------------------
(* resolveInstances                                                        *)

RECURSIVE WildcardLoop_StopsEarly(_, _, _, _, _)
\* variant: the loop condition is i < count, the last instance is never made
WildcardLoop_StopsEarly(m, prefix, config, i, count) ==
    IF ~(i < count) THEN Ok(m)
    ELSE LET instanceName == InstanceName(prefix, i)
             m1 == EnsureInstance(m, instanceName)
             r == ApplyWildcard(Get(m1, instanceName), config)
         IN  IF ~r.ok THEN Throw(m1)
             ELSE WildcardLoop_StopsEarly(Put(m1, instanceName, r.val),
                                          prefix, config, i + 1, count)

RECURSIVE WildcardLoop(_, _, _, _, _)
\* for (let i = 1; i <= count; i++) { ... }
WildcardLoop(m, prefix, config, i, count) ==
    IF ~(i <= count) THEN Ok(m)
    ELSE LET instanceName == InstanceName(prefix, i)
             m1 == EnsureInstance(m, instanceName)
             r == ApplyWildcard(Get(m1, instanceName), config)
         IN  IF ~r.ok THEN Throw(m1)
             ELSE WildcardLoop(Put(m1, instanceName, r.val), prefix, config, i + 1, count)

\* variant: the numbering of a role's instances starts at 0
FirstPassStep_FromZero(m, pattern, config, instanceCounts) ==
    IF pattern = <<"*">> THEN Ok(m)
    ELSE IF Includes(pattern, "*")
         THEN LET prefix == ReplaceFirst(pattern, "*") IN
              IF HasCount(instanceCounts, prefix) /\ CountOf(instanceCounts, prefix) /= 0
              THEN WildcardLoop(m, prefix, config, 0, CountOf(instanceCounts, prefix))
              ELSE Ok(m)
         ELSE LET m1 == EnsureInstance(m, pattern)
                  r == ApplyExact(Get(m1, pattern), config)
              IN  IF ~r.ok THEN Throw(m1) ELSE Ok(Put(m1, pattern, r.val))

\* variant: a role without a count gets one instance (count || 1)
FirstPassStep_DefaultOne(m, pattern, config, instanceCounts) ==
    IF pattern = <<"*">> THEN Ok(m)
    ELSE IF Includes(pattern, "*")
         THEN LET prefix == ReplaceFirst(pattern, "*") IN
              IF HasCount(instanceCounts, prefix) /\ CountOf(instanceCounts, prefix) /= 0
              THEN WildcardLoop(m, prefix, config, 1, CountOf(instanceCounts, prefix))
              ELSE WildcardLoop(m, prefix, config, 1, 1)
         ELSE LET m1 == EnsureInstance(m, pattern)
                  r == ApplyExact(Get(m1, pattern), config)
              IN  IF ~r.ok THEN Throw(m1) ELSE Ok(Put(m1, pattern, r.val))

\* variant: an exact key applies its block to a fresh instance record,
\* dropping what a role wildcard put there before
FirstPassStep_ExactResets(m, pattern, config, instanceCounts) ==
    IF pattern = <<"*">> THEN Ok(m)
    ELSE IF Includes(pattern, "*")
         THEN LET prefix == ReplaceFirst(pattern, "*") IN
              IF HasCount(instanceCounts, prefix) /\ CountOf(instanceCounts, prefix) /= 0
              THEN WildcardLoop(m, prefix, config, 1, CountOf(instanceCounts, prefix))
              ELSE Ok(m)
         ELSE LET m1 == EnsureInstance(m, pattern)
                  r == ApplyExact(EmptyInstance, config)
              IN  IF ~r.ok THEN Throw(m1) ELSE Ok(Put(m1, pattern, r.val))

\* one iteration of the first pass, for the entry [pattern, config]
FirstPassStep(m, pattern, config, instanceCounts) ==
    IF pattern = <<"*">> THEN Ok(m)
    ELSE IF Includes(pattern, "*")
         THEN LET prefix == ReplaceFirst(pattern, "*") IN
              IF HasCount(instanceCounts, prefix) /\ CountOf(instanceCounts, prefix) /= 0
              THEN WildcardLoop(m, prefix, config, 1, CountOf(instanceCounts, prefix))
              ELSE Ok(m)
         ELSE LET m1 == EnsureInstance(m, pattern)
                  r == ApplyExact(Get(m1, pattern), config)
              IN  IF ~r.ok THEN Throw(m1) ELSE Ok(Put(m1, pattern, r.val))

RECURSIVE FirstPass(_, _, _, _)
\* for (const [pattern, config] of Object.entries(instances)) { ... }
FirstPass(m, entries, k, instanceCounts) ==
    IF k > Len(entries) THEN Ok(m)
    ELSE LET r == FirstPassStep(m, entries[k].key, entries[k].config, instanceCounts) IN
         IF ~r.ok THEN r ELSE FirstPass(r.val, entries, k + 1, instanceCounts)

RECURSIVE GlobalLoop(_, _, _)
\* for (const [instanceName, existing] of resolved.entries()) { ... }
GlobalLoop(m, k, globalConfig) ==
    IF k > Len(m) THEN Ok(m)
    ELSE LET r == ApplyGlobal(m[k].inst, globalConfig) IN
         IF ~r.ok THEN Throw(m)
         ELSE GlobalLoop([m EXCEPT ![k].inst = r.val], k + 1, globalConfig)

\* if (instances["*"]) { ... }
SecondPass(m, decl) ==
    IF HasGlobal(decl)
    THEN GlobalLoop(m, 1, GlobalConfig(decl))
    ELSE Ok(m)

\* resolveInstances(instances, spec): Ok(the Map) or a thrown TypeError
ResolveInstances(decl, sp) ==
    LET first == FirstPass(<<>>, ObjectEntries(decl), 1, InstanceCounts(sp)) IN
    IF ~first.ok THEN first ELSE SecondPass(first.val, decl)

-----------------------------------------------------------------------------
(* The manifest file: its text, updateManifestDate, loadManifest           *)

\* The text of manifest.json as the sequence of its tokens, white space left
\* out: `{` (root) and `"n": {`, `}`, `,`, a string member `"n": "v"`, a
\* member of another value (`"instances": {...}`, `"instances": null`), and
\* text that is no JSON.
Tok(k, n, v) == [k |-> k, n |-> n, v |-> v]
Open(n) == Tok("open", n, "")
Close == Tok("close", "", "")
Comma == Tok("comma", "", "")
Field(n, v) == Tok("field", n, v)
Member(n, v) == Tok("member", n, v)
Garbage == Tok("garbage", "", "")
\* a `// ...` comment, running to the end of its line, the line end included
Comment == Tok("comment", "", "")
\* a line end that follows no comment; other white space is left out
Newline == Tok("newline", "", "")

\* a manifest file: whether it exists, and its text
File(exists, text) == [exists |-> exists, text |-> text]

\* new Date().toISOString().split("T")[0]
Today == "2026-11-02"
\* customDate || today
DateToUse(customDate) == IF customDate /= "" THEN customDate ELSE Today

\* the first of the places where a pattern matches; 0 when it matches nowhere
FirstMatch(places) ==
    IF places = {} THEN 0 ELSE CHOOSE i \in places : \A j \in places : i <= j

\* /["']updated["']\s*:\s*["'][^"']*["']/.test(content)
HasUpdated(text) == \E i \in 1..Len(text) : text[i].k = "field" /\ text[i].n = "updated"

\* content.replace(/(["']updated["']\s*:\s*["'])([^"']+)(["'])/, `$1${date}$3`):
\* the first updated member whose value is not empty
ReplaceUpdated(text, date) ==
    LET i == FirstMatch({x \in 1..Len(text) :
                            text[x].k = "field" /\ text[x].n = "updated" /\ text[x].v /= ""}) IN
    IF i = 0 THEN text ELSE [text EXCEPT ![i] = Field("updated", date)]

\* content.replace(/(["']ga["']\s*:\s*["'][^"']*["'])(,?)(\s*)/m,
\*                 `$1,\n    "updated": "${date}"$3`): the comma matched
\* after the ga member is not written back
InsertAfterGa(text, i, date) ==
    SubSeq(text, 1, i) \o <<Comma, Field("updated", date)>>
        \o SubSeq(text, IF i < Len(text) /\ text[i + 1].k = "comma" THEN i + 2 ELSE i + 1,
                  Len(text))

\* /"metadata"\s*:\s*\{[^}]*\}/s: "metadata": { and the first } after it
MetadataClose(text) ==
    LET m == FirstMatch({x \in 1..Len(text) : text[x].k = "open" /\ text[x].n = "metadata"}) IN
    IF m = 0 \/ ~\E j \in (m + 1)..Len(text) : text[j].k = "close" THEN 0
    ELSE CHOOSE j \in (m + 1)..Len(text) :
             text[j].k = "close" /\ \A x \in (m + 1)..(j - 1) : text[x].k /= "close"

\* content.replace(/("metadata"\s*:\s*\{[^}]*)(\s*)(\})/s,
\*                 `$1,\n    "updated": "${date}"$2$3`)
InsertBeforeClose(text, j, date) ==
    SubSeq(text, 1, j - 1) \o <<Comma, Field("updated", date)>> \o SubSeq(text, j, Len(text))

\* the content written back by updateManifestDate
UpdatedContent(text, date) ==
    IF HasUpdated(text) THEN ReplaceUpdated(text, date)
    ELSE LET g == FirstMatch({x \in 1..Len(text) : text[x].k = "field" /\ text[x].n = "ga"}) IN
         IF g /= 0 THEN InsertAfterGa(text, g, date)
         ELSE IF MetadataClose(text) /= 0
              THEN InsertBeforeClose(text, MetadataClose(text), date)
              ELSE text

\* updateManifestDate(courseDir, customDate): throws when there is no file
UpdateManifestDate(file, customDate) ==
    IF ~file.exists THEN Throw(file)
    ELSE Ok(File(TRUE, UpdatedContent(file.text, DateToUse(customDate))))

\* (s.match(/"/g) || []).length
QuoteCount(s) == Cardinality({i \in 1..Len(s) : SubSeq(s, i, i) = "\""})

\* s.indexOf("//"), counted from 1: 0 when s has none
SlashesAt(s) == FirstMatch({i \in 1..(Len(s) - 1) : SubSeq(s, i, i + 1) = "//"})

\* the `"` of the text of a token: `"n": "v"` for a field, `"n": ` before the
\* value of a member or the brace of a named object
Quotes(t) ==
    CASE t.k = "field" -> 4 + QuoteCount(t.n) + QuoteCount(t.v)
      [] t.k = "member" -> 2 + QuoteCount(t.n)
      [] t.k = "open" /\ t.n /= "" -> 2 + QuoteCount(t.n)
      [] OTHER -> 0

\* the text of the token holds a `//`: a comment, or a string value with one
HasSlashes(t) == t.k = "comment" \/ (t.k = "field" /\ SlashesAt(t.v) > 0)

\* the `"` of the token that stand before its `//`
QuotesBeforeSlashes(t) ==
    IF t.k = "comment" THEN 0
    ELSE 3 + QuoteCount(t.n) + QuoteCount(SubSeq(t.v, 1, SlashesAt(t.v) - 1))

RECURSIVE QuotesIn(_)
QuotesIn(line) == IF Len(line) = 0 THEN 0 ELSE Quotes(line[1]) + QuotesIn(Tail(line))

\* the callback of lines.map: line.indexOf("//"), the `"` of beforeComment
\* counted; with an even count the line is cut at the `//` (a string value
\* cut there is an unterminated string), else the line is returned as it is
StripLine(line) ==
    LET commentIndex == FirstMatch({i \in 1..Len(line) : HasSlashes(line[i])}) IN
    IF commentIndex = 0 THEN line
    ELSE LET quoteCount == QuotesIn(SubSeq(line, 1, commentIndex - 1))
                               + QuotesBeforeSlashes(line[commentIndex])
         IN  IF quoteCount % 2 = 0
             THEN SubSeq(line, 1, commentIndex - 1)
                      \o (IF line[commentIndex].k = "comment" THEN <<>> ELSE <<Garbage>>)
             ELSE line

\* content.split("\n").map(...): the lines, one after the other
RECURSIVE StripLines(_)
StripLines(text) ==
    IF Len(text) = 0 THEN <<>>
    ELSE LET ends == FirstMatch({i \in 1..Len(text) : text[i].k \in {"comment", "newline"}})
             end == IF ends = 0 THEN Len(text) ELSE ends
         IN  StripLine(SubSeq(text, 1, end)) \o StripLines(SubSeq(text, end + 1, Len(text)))

\* the lines joined again; the line ends are white space to what follows
StripComments(text) == SelectSeq(StripLines(text), LAMBDA t : t.k /= "newline")

\* .replace(/,(\s*[}\]])/g, "$1"): a comma right before a closing brace goes
RECURSIVE RemoveTrailingCommas(_)
RemoveTrailingCommas(text) ==
    IF Len(text) = 0 THEN <<>>
    ELSE IF Len(text) > 1 /\ text[1].k = "comma" /\ text[2].k = "close"
         THEN RemoveTrailingCommas(Tail(text))
         ELSE <<text[1]>> \o RemoveTrailingCommas(Tail(text))

\* nesting depth after the first i tokens
Depth(text, i) ==
    Cardinality({j \in 1..i : text[j].k = "open"})
        - Cardinality({j \in 1..i : text[j].k = "close"})

StartsValue(t) == t.k \in {"field", "member"} \/ (t.k = "open" /\ t.n /= "")
EndsValue(t) == t.k \in {"field", "member", "close"}

\* JSON.parse(cleanContent) returns: one object, members separated by commas
JsonParses(text) ==
    /\ Len(text) >= 2
    /\ text[1] = Open("")
    /\ \A i \in 1..Len(text) : text[i].k \notin {"garbage", "comment"}
    /\ \A i \in 1..(Len(text) - 1) : Depth(text, i) >= 1
    /\ Depth(text, Len(text)) = 0
    /\ \A i \in 1..(Len(text) - 1) :
           LET a == text[i]
               b == text[i + 1]
           IN  /\ a.k = "open" => StartsValue(b) \/ b.k = "close"
               /\ EndsValue(a) => b.k \in {"comma", "close"}
               /\ a.k = "comma" => StartsValue(b)

\* the value of a member of the root object: "" when the object has none
RootMember(text, n) ==
    IF \E j \in 2..Len(text) : text[j].n = n /\ text[j].k /= "field" /\ Depth(text, j - 1) = 1
    THEN text[CHOOSE j \in 2..Len(text) :
                  text[j].n = n /\ text[j].k /= "field" /\ Depth(text, j - 1) = 1].v
    ELSE ""

\* variant: the parsed manifest is returned without the check of its instances
LoadManifest_NoValidation(file) ==
    IF ~file.exists THEN Throw("manifest.json not found")
    ELSE IF ~JsonParses(RemoveTrailingCommas(StripComments(file.text)))
         THEN Throw("Invalid JSON in manifest.json")
         ELSE Ok("manifest")

\* loadManifest(courseDir): throws when the file is missing, when its cleaned
\* content does not parse, and when !manifest.instances
LoadManifest(file) ==
    IF ~file.exists THEN Throw("manifest.json not found")
    ELSE LET cleanContent == RemoveTrailingCommas(StripComments(file.text)) IN
         IF ~JsonParses(cleanContent) THEN Throw("Invalid JSON in manifest.json")
         ELSE IF RootMember(cleanContent, "instances") \in {"", "null"}
              THEN Throw("manifest.json missing required \"instances\" field")
              ELSE Ok("manifest")

-----------------------------------------------------------------------------
(* The course directory and the output directory: generateApps, cleanDist  *)

\* the sources that exist under the course directory (apps are directories)
CourseFiles == {"./apps/a", "./apps/b", "./f.conf", "./datagens/d"}
\* fs.existsSync(path.resolve(courseDir, source))
SourceExists(source) == source.s \in CourseFiles

\* s.startsWith(prefix)
StartsWith(s, prefix) == Len(s) >= Len(prefix) /\ SubSeq(s, 1, Len(prefix)) = prefix
IsUrl(source) == StartsWith(source.s, "http://") \/ StartsWith(source.s, "https://")

\* the output directory: whether it exists, its instance directories, what
\* was copied under them as [instance, into, source], and its archives as
\* [instance, parent, name], and its instance archives
Dist(exists, dirs, copied, archives, tarballs) ==
    [exists |-> exists, dirs |-> dirs, copied |-> copied, archives |-> archives,
     tarballs |-> tarballs]
NoDist == Dist(FALSE, {}, {}, {}, {})
Copy(instance, into, source) == [instance |-> instance, into |-> into, source |-> source]

\* variant: the output directory is left as it is found
CleanDist_Keeps(d) == d

\* cleanDist: if (fs.existsSync(distDir)) fs.rmSync(distDir, { recursive: true, force: true })
CleanDist(d) == IF d.exists THEN NoDist ELSE d

\* a call of copyApp, copyFile or copyDatagen
Call(step, instanceName, source, destination) ==
    [step |-> step, instance |-> instanceName, source |-> source, destination |-> destination]

\* what generateApps has done so far: the output directory and the calls made
Work(d, made) == [dist |-> d, calls |-> made]
Called(w, call) == Work(w.dist, Append(w.calls, call))
Copied(w, copy) == Work([w.dist EXCEPT !.copied = @ \cup {copy}], w.calls)

\* copyApp: appPath.startsWith throws unless the source is a string; a URL
\* and a source that does not exist are passed over
CopyApp(w, instanceName, appConfig) ==
    LET c == Called(w, Call("copyApp", instanceName, appConfig.source, appConfig.destination))
        destination == OrElse(appConfig.destination, Str("apps"))
    IN  IF ~TypeofString(appConfig.source) THEN Throw(c)
        ELSE IF IsUrl(appConfig.source) \/ ~SourceExists(appConfig.source) THEN Ok(c)
             ELSE Ok(Copied(c, Copy(instanceName, destination.s, appConfig.source.s)))

\* copyFile: path.resolve throws unless the source is a string, and
\* destination.startsWith unless the destination is one
CopyFile(w, instanceName, fileConfig) ==
    LET c == Called(w, Call("copyFile", instanceName, fileConfig.source, fileConfig.destination))
        d == fileConfig.destination
    IN  IF ~TypeofString(fileConfig.source) THEN Throw(c)
        ELSE IF ~SourceExists(fileConfig.source) THEN Ok(c)
             ELSE IF ~TypeofString(d) THEN Throw(c)
                  ELSE Ok(Copied(c, Copy(instanceName,
                                         IF StartsWith(d.s, "system/") THEN d.s
                                         ELSE "system/" \o d.s,
                                         fileConfig.source.s)))

\* copyDatagen: path.resolve throws unless the path is a string
CopyDatagen(w, instanceName, datagenPath, destination) ==
    LET c == Called(w, Call("copyDatagen", instanceName, datagenPath, destination)) IN
    IF ~TypeofString(datagenPath) THEN Throw(c)
    ELSE IF ~SourceExists(datagenPath) THEN Ok(c)
         ELSE Ok(Copied(c, Copy(instanceName, "datagen", datagenPath.s)))

RECURSIVE CopyApps(_, _, _, _)
\* for (const appConfig of config.apps) copyApp(...)
CopyApps(w, instanceName, apps, k) ==
    IF k > Len(apps) THEN Ok(w)
    ELSE LET r == CopyApp(w, instanceName, apps[k]) IN
         IF r.ok THEN CopyApps(r.val, instanceName, apps, k + 1) ELSE r

RECURSIVE CopyFiles(_, _, _, _)
\* for (const fileConfig of config.files) copyFile(...)
CopyFiles(w, instanceName, files, k) ==
    IF k > Len(files) THEN Ok(w)
    ELSE LET r == CopyFile(w, instanceName, files[k]) IN
         IF r.ok THEN CopyFiles(r.val, instanceName, files, k + 1) ELSE r

\* the values a for...of loop visits: the elements of an array, the
\* characters of a string; other values are not iterable
IsIterable(v) == IsArray(v) \/ TypeofString(v)
Iterate(v) == IF IsArray(v) THEN v.a ELSE [i \in 1..Len(v.s) |-> Str(SubSeq(v.s, i, i))]

\* if (datagenPath === "TBD" || !datagenPath) continue
IsPlaceholder(datagenPath) == datagenPath = Str("TBD") \/ ~Truthy(datagenPath)

RECURSIVE CopyDatagens_StopsAtPlaceholder(_, _, _, _, _)
\* variant: a placeholder ends the loop (break for continue)
CopyDatagens_StopsAtPlaceholder(w, instanceName, paths, k, destination) ==
    IF k > Len(paths) THEN Ok(w)
    ELSE IF IsPlaceholder(paths[k]) THEN Ok(w)
         ELSE LET r == CopyDatagen(w, instanceName, paths[k], destination) IN
              IF r.ok
              THEN CopyDatagens_StopsAtPlaceholder(r.val, instanceName, paths, k + 1,
                                                   destination)
              ELSE r

RECURSIVE CopyDatagens(_, _, _, _, _)
\* for (const datagenPath of config.datagen.source) { placeholder: continue; copyDatagen(...) }
CopyDatagens(w, instanceName, paths, k, destination) ==
    IF k > Len(paths) THEN Ok(w)
    ELSE IF IsPlaceholder(paths[k])
         THEN CopyDatagens(w, instanceName, paths, k + 1, destination)
         ELSE LET r == CopyDatagen(w, instanceName, paths[k], destination) IN
              IF r.ok THEN CopyDatagens(r.val, instanceName, paths, k + 1, destination)
              ELSE r

\* if (config.datagen && config.datagen.source) for (... of config.datagen.source)
ProcessDatagen(w, instanceName, datagen) ==
    IF ~(Truthy(datagen) /\ Truthy(SourceOf(datagen))) THEN Ok(w)
    ELSE IF ~IsIterable(SourceOf(datagen)) THEN Throw(w)
         ELSE CopyDatagens(w, instanceName, Iterate(SourceOf(datagen)), 1,
                           DestinationOf(datagen))

\* generateInstanceApps: the instance directory, then apps, files, datagen
GenerateInstanceApps(w, instanceName, config) ==
    LET made == Work([w.dist EXCEPT !.dirs = @ \cup {instanceName}], w.calls)
        a == CopyApps(made, instanceName, config.apps, 1)
    IN  IF ~a.ok THEN a
        ELSE LET f == CopyFiles(a.val, instanceName, config.files, 1) IN
             IF ~f.ok THEN f
             ELSE ProcessDatagen(f.val, instanceName, config.datagen)

RECURSIVE GenerateEach(_, _, _)
\* for (const [instanceName, config] of resolvedInstances) generateInstanceApps(...)
GenerateEach(w, m, k) ==
    IF k > Len(m) THEN Ok(w)
    ELSE LET r == GenerateInstanceApps(w, m[k].name, m[k].inst) IN
         IF r.ok THEN GenerateEach(r.val, m, k + 1) ELSE r

\* generateApps: the output directory is made if missing, then every instance
GenerateApps(d, m) == GenerateEach(Work([d EXCEPT !.exists = TRUE], <<>>), m, 1)

-----------------------------------------------------------------------------
(* Packaging: packageApps, packageInstances, tarDirectory                  *)

RECURSIVE SlashAt(_, _)
\* the place of the first "/" of a path at or after i; 0 when there is none
SlashAt(s, i) ==
    IF i > Len(s) THEN 0
    ELSE IF SubSeq(s, i, i) = "/" THEN i ELSE SlashAt(s, i + 1)

RECURSIVE Basename(_)
\* path.basename
Basename(s) ==
    IF SlashAt(s, 1) = 0 THEN s ELSE Basename(SubSeq(s, SlashAt(s, 1) + 1, Len(s)))

\* the first component of a relative path, and what follows it
FirstPart(s) == IF SlashAt(s, 1) = 0 THEN s ELSE SubSeq(s, 1, SlashAt(s, 1) - 1)
AfterFirst(s) == IF SlashAt(s, 1) = 0 THEN "" ELSE SubSeq(s, SlashAt(s, 1) + 1, Len(s))

\* an archive <name>.tar.gz made within <instance>/<parent>
Archive(instance, parent, name) == [instance |-> instance, parent |-> parent, name |-> name]

\* the directory packageApps archives for something copied: none under system
\* and datagen; each app of a destination folder; the first folder below a
\* destination of several components
TargetOf(copy) ==
    IF AfterFirst(copy.into) = ""
    THEN Archive(copy.instance, copy.into, Basename(copy.source))
    ELSE Archive(copy.instance, FirstPart(copy.into), FirstPart(AfterFirst(copy.into)))

AppTargets(d, m) ==
    {TargetOf(c) : c \in {x \in d.copied :
                             /\ x.instance \in Keys(m)
                             /\ x.instance \in d.dirs
                             /\ FirstPart(x.into) \notin {"system", "datagen"}}}

\* variant: removeOriginal removes every target directory, archived or not
PackageApps_RemovesUnarchived(d, m, removeOriginal, failed) ==
    LET done == AppTargets(d, m) \ failed IN
    [d EXCEPT !.archives = @ \cup done,
              !.copied = IF removeOriginal
                         THEN {c \in @ : c \notin {x \in d.copied :
                                                      TargetOf(x) \in AppTargets(d, m)}}
                         ELSE @]

\* packageApps: tarDirectory for every target; the ones in failed raise in
\* execSync, which is logged; removeOriginal removes a directory archived
PackageApps(d, m, removeOriginal, failed) ==
    LET done == AppTargets(d, m) \ failed IN
    [d EXCEPT !.archives = @ \cup done,
              !.copied = IF removeOriginal
                         THEN {c \in @ : c \notin {x \in d.copied : TargetOf(x) \in done}}
                         ELSE @]

InstanceTargets(d, m) == {name \in Keys(m) : name \in d.dirs}

\* packageInstances: tarDirectory(distDir, instanceName) for every instance
\* directory; removeOriginal removes the directory with all it holds
PackageInstances(d, m, removeOriginal, failed) ==
    LET done == InstanceTargets(d, m) \ failed IN
    [d EXCEPT !.tarballs = @ \cup done,
              !.dirs = IF removeOriginal THEN @ \ done ELSE @,
              !.copied = IF removeOriginal THEN {c \in @ : c.instance \notin done} ELSE @,
              !.archives = IF removeOriginal THEN {a \in @ : a.instance \notin done} ELSE @]

-----------------------------------------------------------------------------
(* The command line: one run of the action (index.js)                      *)

\* the options of a run: --date ("" when not given), --dry-run, --tar (""
\* when not given), --clean
Options(date, dryRun, tar, clean) ==
    [date |-> date, dryRun |-> dryRun, tar |-> tar, clean |-> clean]

\* variant: the dry run prints and then goes on to generate
After_DryRunGoesOn(step, opts) ==
    CASE step = "updateManifestDate" -> "cleanDist"
      [] step = "cleanDist" -> "loadManifest"
      [] step = "loadManifest" -> "resolveInstances"
      [] step = "resolveInstances" -> IF opts.dryRun THEN "print" ELSE "generateApps"
      [] step = "print" -> "generateApps"
      [] step = "generateApps" ->
             IF opts.tar \in {"apps", "all"} THEN "packageApps"
             ELSE IF opts.tar \in {"instances", "all"} THEN "packageInstances" ELSE "done"
      [] step = "packageApps" ->
             IF opts.tar \in {"instances", "all"} THEN "packageInstances" ELSE "done"
      [] OTHER -> "done"

\* the step that follows a step that returned
After(step, opts) ==
    CASE step = "updateManifestDate" -> "cleanDist"
      [] step = "cleanDist" -> "loadManifest"
      [] step = "loadManifest" -> "resolveInstances"
      [] step = "resolveInstances" -> IF opts.dryRun THEN "print" ELSE "generateApps"
      [] step = "generateApps" ->
             IF opts.tar \in {"apps", "all"} THEN "packageApps"
             ELSE IF opts.tar \in {"instances", "all"} THEN "packageInstances" ELSE "done"
      [] step = "packageApps" ->
             IF opts.tar \in {"instances", "all"} THEN "packageInstances" ELSE "done"
      [] OTHER -> "done"

\* catch (error) { logger.error(...); process.exit(1); }
Caught(step) == <<step, "logger.error", "process.exit(1)">>

-----------------------------------------------------------------------------
(* The inputs drawn: pattern keys, resource blocks, role-count specs       *)

Block(apps, files, datagen, datagens) ==
    [apps |-> apps, files |-> files, datagen |-> datagen, datagens |-> datagens]

KeyGlobal == <<"*">>
KeyIdxAll == <<"i", "*">>
KeyShAll == <<"s", "*">>
KeyIdx1 == <<"i", "1">>
KeyIdx2 == <<"i", "2">>
KeyIdx3 == <<"i", "3">>
KeyLm1 == <<"l", "1">>

AppA == Str("./apps/a")
AppB == Str("./apps/b")
AppC == Str("./apps/c")
FileF == Str("./f.conf")
FileG == Str("./g.conf")
GenD == Str("./datagens/d")
GenE == Str("./datagens/e")

EmptyBlock == Block(Undef, Undef, Undef, Undef)
\* apps in the legacy form, a placeholder datagen
BlockLegacy == Block(Arr(<<AppA, AppB>>), Undef, Arr(<<Str("TBD")>>), Undef)
\* the same apps as a single object; a scalar files source, destination omitted
BlockObject == Block(Obj(Arr(<<AppA, AppB>>), Str("apps")), Obj(FileF, Undef), Undef, Undef)
\* destination omitted; datagens as an object
BlockNoDest == Block(Obj(Arr(<<AppC>>), Undef), Undef, Undef,
                     Obj(Arr(<<GenD>>), Str("/opt/log")))
\* apps as a sequence of objects (co-located roles); a files sequence; datagen object
BlockGroups == Block(Arr(<<Obj(Arr(<<AppA>>), Str("deployment-apps")),
                           Obj(Arr(<<AppC, AppB>>), Undef)>>),
                     Obj(Arr(<<FileF, FileG>>), Str("local")),
                     Obj(Arr(<<GenE>>), Undef), Undef)
\* files only, and both spellings of the datagen field
BlockFiles == Block(Undef, Obj(Arr(<<FileG>>), Str("system/local")),
                    Obj(Arr(<<GenE>>), Str("/opt/e")), Arr(<<GenD>>))

\* spec.instances as the sequence of its members, and one member of it
CountFor(role, n) == <<[role |-> role, count |-> n]>>
SpecOf(counts) == [t |-> "obj", hasInstances |-> TRUE, instances |-> counts]
SpecMissing == [t |-> "undef", hasInstances |-> FALSE, instances |-> <<>>]
SpecNoInstances == [t |-> "obj", hasInstances |-> FALSE, instances |-> <<>>]

\* the pattern maps of at most MaxKeys keys, keys from K (each at most once, as
\* in an object), blocks from B
PatternMaps(K, B) ==
    UNION {{[i \in 1..n |-> [key |-> f[i][1], config |-> f[i][2]]] :
              f \in {g \in [1..n -> K \X B] :
                        \A x, y \in 1..n : x /= y => g[x][1] /= g[y][1]}} :
           n \in 0..MaxKeys}

InitWith(K, B, S) ==
    /\ instances \in PatternMaps(K, B)
    /\ spec \in S
    /\ resolved = <<>>
    /\ outcome = "pending"
    /\ manifest = File(FALSE, <<>>)
    /\ options = Options("", FALSE, "", FALSE)
    /\ dist = NoDist
    /\ pc = "call"
    /\ log = <<>>
    /\ calls = <<>>

-----------------------------------------------------------------------------
(* The state machine: a call of resolveInstances on the drawn inputs       *)

\* variant: the call takes the `*` member out of the pattern map it was given
Resolve_ConsumesGlobal ==
    /\ outcome = "pending"
    /\ LET r == ResolveInstances(instances, spec) IN
       /\ resolved' = IF r.ok THEN r.val ELSE <<>>
       /\ outcome' = IF r.ok THEN "returned" ELSE "threw"
    /\ instances' = SelectSeq(instances, LAMBDA e : e.key /= <<"*">>)
    /\ UNCHANGED <<spec, manifest, options, dist, pc, log, calls>>

\* a direct call: it returns its Map, or ends with the thrown error
Resolve ==
    /\ outcome = "pending"
    /\ LET r == ResolveInstances(instances, spec) IN
       /\ resolved' = IF r.ok THEN r.val ELSE <<>>
       /\ outcome' = IF r.ok THEN "returned" ELSE "threw"
    /\ UNCHANGED <<instances, spec, manifest, options, dist, pc, log, calls>>

Next == Resolve

\* Role expansion: which identities exist.  Keys of the three kinds, counts
\* absent, negative, zero and positive, spec or spec.instances missing.
\* One block has an apps object whose source is a scalar: touching it throws.
BlockScalarSource == Block(Obj(AppA, Undef), Undef, Undef, Undef)
IdKeys == {KeyGlobal, KeyIdxAll, KeyShAll, KeyIdx2, KeyIdx3}
IdBlocks == {EmptyBlock, BlockGroups, BlockScalarSource}
IdSpecs ==
    {SpecMissing, SpecNoInstances}
        \cup {SpecOf(i \o s) :
                 i \in {<<>>} \cup {CountFor(<<"i">>, n) : n \in -1..MaxCount},
                 s \in {<<>>, CountFor(<<"s">>, 1)}}

Init == InitWith(IdKeys, IdBlocks, IdSpecs)
Spec == Init /\ [][Next]_vars

\* Merging: several patterns reach one identity, in every declaration order.
MergeKeys == {KeyGlobal, KeyIdxAll, KeyIdx1, KeyIdx2}
MergeBlocks == {EmptyBlock, BlockLegacy, BlockObject, BlockNoDest, BlockGroups, BlockFiles}
MergeSpecs == {SpecOf(CountFor(<<"i">>, n)) : n \in {1, MaxCount}}

InitMerge == InitWith(MergeKeys, MergeBlocks, MergeSpecs)
SpecMerge == InitMerge /\ [][Next]_vars

\* Legacy apps: every sequence of at most MaxSeq strings, the empty string
\* among them, declared in the legacy form.
StringSeqs == UNION {[1..n -> {AppA, Str("")}] : n \in 0..MaxSeq}
LegacyKeys == {KeyGlobal, KeyIdxAll, KeyIdx2}
LegacyBlocks == {Block(Arr(s), Undef, Undef, Undef) : s \in StringSeqs} \cup {BlockNoDest}
LegacySpecs == {SpecOf(CountFor(<<"i">>, MaxCount))}

InitLegacy == InitWith(LegacyKeys, LegacyBlocks, LegacySpecs)
SpecLegacy == InitLegacy /\ [][Next]_vars

\* Any shape: apps, files and datagen values outside the accepted shapes.
AnyApps ==
    {Obj(Arr(<<AppA, AppB>>), Str("apps")),
     Obj(AppA, Undef),
     Arr(<<Null>>),
     Arr(<<AppA, Obj(Arr(<<AppB>>), Str("manager-apps"))>>),
     Arr(<<Obj(Arr(<<AppB>>), Undef), AppA>>),
     Obj(Arr(<<AppA>>), Num("5")),
     Obj(Undef, Str("apps")),
     AppA,
     Num("7")}
AnyKeys == {KeyGlobal, KeyIdxAll, KeyLm1}
AnyBlocks ==
    {Block(apps, Undef, Undef, Undef) : apps \in AnyApps}
        \cup {Block(Undef, FileF, Str("TBD"), Undef),
              Block(Undef, Obj(Num("7"), Undef), Obj(GenD, Undef), Undef),
              Block(Undef, Arr(<<FileF>>), Undef, Num("7"))}
AnySpecs == {SpecOf(CountFor(<<"i">>, 1))}

InitAny == InitWith(AnyKeys, AnyBlocks, AnySpecs)
SpecAny == InitAny /\ [][Next]_vars

-----------------------------------------------------------------------------
(* Runs of the command line on a course directory                          *)

\* A manifest document as JSON.stringify(manifest, null, 2) writes it: the
\* members of its metadata object, in order, and the rest of the root object.
\* A metadata member is a string member or an object of one string member.
StringMember(n, v) == [k |-> "field", n |-> n, v |-> v]
ObjectMember(n, v) == [k |-> "nested", n |-> n, v |-> v]
Document(hasMetadata, metadata, body) ==
    [hasMetadata |-> hasMetadata, metadata |-> metadata, body |-> body]

RenderMember(mb) ==
    IF mb.k = "field" THEN <<Field(mb.n, mb.v)>>
    ELSE <<Open(mb.n), Field("version", mb.v), Close>>

RECURSIVE RenderMembers(_)
RenderMembers(ms) ==
    IF Len(ms) = 0 THEN <<>>
    ELSE IF Len(ms) = 1 THEN RenderMember(ms[1])
         ELSE RenderMember(ms[1]) \o <<Comma>> \o RenderMembers(Tail(ms))

\* the rest of the root object: spec and instances; instances null or
\* missing; a hand-written body with a comment and a trailing comma; bodies
\* with a URL in a string, a comment on the line after it or on its line, and
\* with an escaped `"` in a string before a comment; a body that is no JSON
RenderBody(body) ==
    CASE body = "plain" ->
             <<Member("spec", "object"), Comma, Member("instances", "object")>>
      [] body = "commented" ->
             <<Member("spec", "object"), Comma, Comment,
               Member("instances", "object"), Comma>>
      [] body = "linked" ->
             <<Member("spec", "object"), Comma, Newline,
               Field("docs", "https://docs.splunk.com"), Comma, Newline,
               Comment,
               Member("instances", "object")>>
      [] body = "linkedCommented" ->
             <<Member("spec", "object"), Comma, Newline,
               Field("docs", "https://docs.splunk.com"), Comma, Comment,
               Member("instances", "object")>>
      [] body = "quoted" ->
             <<Member("spec", "object"), Comma, Newline,
               Field("disk", "3.5\\\" drive"), Comma, Comment,
               Member("instances", "object")>>
      [] body = "null" ->
             <<Member("spec", "object"), Comma, Member("instances", "null")>>
      [] body = "none" -> <<Member("spec", "object")>>
      [] OTHER -> <<Member("spec", "object"), Garbage, Member("instances", "object")>>

Render(doc) ==
    <<Open("")>>
        \o (IF doc.hasMetadata
            THEN <<Open("metadata")>> \o RenderMembers(doc.metadata) \o <<Close, Comma>>
            ELSE <<>>)
        \o RenderBody(doc.body) \o <<Close>>

CourseId == StringMember("courseId", "0001")
Ga == StringMember("ga", "2025-11-01")
Splunk == ObjectMember("splunk", "10.2.0")

\* metadata with updated present (dated, empty), absent with ga last and with
\* ga before another member, absent without ga, with a nested object, empty
MetadataDrawn ==
    {<<CourseId, StringMember("updated", "2025-01-01")>>,
     <<CourseId, StringMember("updated", "")>>,
     <<Ga, StringMember("updated", "2026-01-21"), Splunk>>,
     <<CourseId, Ga>>,
     <<Ga, CourseId>>,
     <<CourseId>>,
     <<CourseId, Splunk>>,
     <<>>}
DocumentsDrawn ==
    {Document(TRUE, m, "plain") : m \in MetadataDrawn}
        \cup {Document(TRUE, <<CourseId, StringMember("updated", "2025-01-01")>>, b) :
                 b \in {"commented", "linked", "linkedCommented", "quoted",
                       "null", "none", "broken"}}
        \cup {Document(FALSE, <<>>, "plain")}
ManifestsDrawn == {File(FALSE, <<>>)} \cup {File(TRUE, Render(doc)) : doc \in DocumentsDrawn}

\* placeholders among the datagen entries; sources that do not exist
BlockPlaceholders ==
    Block(Arr(<<AppA, AppC>>), Obj(FileF, Undef),
          Arr(<<Str("TBD"), GenD, Str(""), GenE>>), Undef)
\* a destination of two components; datagens with a destination
BlockNested ==
    Block(Arr(<<Obj(Arr(<<AppB>>), Str("shcluster/apps")),
                Obj(Arr(<<AppA>>), Str("deployment-apps"))>>),
          Obj(Arr(<<FileG, FileF>>), Str("local")), Undef,
          Obj(Arr(<<GenD, Str("TBD")>>), Str("/opt/log")))
RunMaps ==
    {<<>>,
     <<[key |-> KeyIdxAll, config |-> BlockPlaceholders]>>,
     <<[key |-> KeyLm1, config |-> BlockNested],
       [key |-> KeyGlobal, config |-> BlockPlaceholders]>>,
     <<[key |-> KeyIdxAll, config |-> BlockNested],
       [key |-> KeyIdx1, config |-> BlockPlaceholders]>>}
RunSpecs == {SpecOf(CountFor(<<"i">>, MaxCount))}
RunOptions ==
    {Options(date, dryRun, tar, clean) :
        date \in {"", "2026-12-25"}, dryRun \in BOOLEAN,
        tar \in {"", "apps", "instances", "all"}, clean \in BOOLEAN}
\* no output directory yet, or one left by an earlier run
StaleDist ==
    Dist(TRUE, {<<"o", "l", "d">>}, {Copy(<<"o", "l", "d">>, "apps", "./apps/a")}, {}, {})

InitRun ==
    /\ manifest \in ManifestsDrawn
    /\ instances \in RunMaps
    /\ spec \in RunSpecs
    /\ options \in RunOptions
    /\ dist \in {NoDist, StaleDist}
    /\ resolved = <<>>
    /\ outcome = "pending"
    /\ pc = "updateManifestDate"
    /\ log = <<>>
    /\ calls = <<>>

\* updateManifestDate(courseDir, options.date)
RunUpdateManifestDate ==
    /\ pc = "updateManifestDate"
    /\ LET r == UpdateManifestDate(manifest, options.date) IN
       /\ manifest' = r.val
       /\ pc' = IF r.ok THEN After(pc, options) ELSE "exit1"
       /\ log' = log \o (IF r.ok THEN <<pc>> ELSE Caught(pc))
    /\ UNCHANGED <<instances, spec, resolved, outcome, options, dist, calls>>

\* cleanDist(courseDir, options)
RunCleanDist ==
    /\ pc = "cleanDist"
    /\ dist' = CleanDist(dist)
    /\ pc' = After(pc, options)
    /\ log' = Append(log, pc)
    /\ UNCHANGED <<instances, spec, resolved, outcome, manifest, options, calls>>

\* const manifest = loadManifest(courseDir)
RunLoadManifest ==
    /\ pc = "loadManifest"
    /\ LET r == LoadManifest(manifest) IN
       /\ pc' = IF r.ok THEN After(pc, options) ELSE "exit1"
       /\ log' = log \o (IF r.ok THEN <<pc>> ELSE Caught(pc))
    /\ UNCHANGED <<instances, spec, resolved, outcome, manifest, options, dist, calls>>

\* const resolvedInstances = resolveInstances(manifest.instances, manifest.spec)
RunResolveInstances ==
    /\ pc = "resolveInstances"
    /\ LET r == ResolveInstances(instances, spec) IN
       /\ resolved' = IF r.ok THEN r.val ELSE <<>>
       /\ outcome' = IF r.ok THEN "returned" ELSE "threw"
       /\ pc' = IF r.ok THEN After(pc, options) ELSE "exit1"
       /\ log' = log \o (IF r.ok THEN <<pc>> ELSE Caught(pc))
    /\ UNCHANGED <<instances, spec, manifest, options, dist, calls>>

\* if (options.dryRun) { print every instance; return; }
RunPrint ==
    /\ pc = "print"
    /\ pc' = After(pc, options)
    /\ log' = Append(log, pc)
    /\ UNCHANGED <<instances, spec, resolved, outcome, manifest, options, dist, calls>>

\* generateApps(courseDir, resolvedInstances, options)
RunGenerateApps ==
    /\ pc = "generateApps"
    /\ LET r == GenerateApps(dist, resolved) IN
       /\ dist' = r.val.dist
       /\ calls' = r.val.calls
       /\ pc' = IF r.ok THEN After(pc, options) ELSE "exit1"
       /\ log' = log \o (IF r.ok THEN <<pc>> ELSE Caught(pc))
    /\ UNCHANGED <<instances, spec, resolved, outcome, manifest, options>>

\* packageApps(distDir, resolvedInstances, options.clean); any of its tar
\* commands may fail
RunPackageApps ==
    /\ pc = "packageApps"
    /\ \E failed \in SUBSET AppTargets(dist, resolved) :
           dist' = PackageApps(dist, resolved, options.clean, failed)
    /\ pc' = After(pc, options)
    /\ log' = Append(log, pc)
    /\ UNCHANGED <<instances, spec, resolved, outcome, manifest, options, calls>>

\* packageInstances(distDir, resolvedInstances, options.clean)
RunPackageInstances ==
    /\ pc = "packageInstances"
    /\ \E failed \in SUBSET InstanceTargets(dist, resolved) :
           dist' = PackageInstances(dist, resolved, options.clean, failed)
    /\ pc' = After(pc, options)
    /\ log' = Append(log, pc)
    /\ UNCHANGED <<instances, spec, resolved, outcome, manifest, options, calls>>

NextRun ==
    \/ RunUpdateManifestDate
    \/ RunCleanDist
    \/ RunLoadManifest
    \/ RunResolveInstances
    \/ RunPrint
    \/ RunGenerateApps
    \/ RunPackageApps
    \/ RunPackageInstances

SpecRun == InitRun /\ [][NextRun]_vars

-----------------------------------------------------------------------------
(* What the claims speak of, stated from their words                       *)

\* the three kinds of pattern key: `*`, `<role>*`, and any other key
IsGlobalKey(key) == key = <<"*">>
IsRoleKey(key) == Len(key) > 1 /\ key[Len(key)] = "*"
IsExactKey(key) == ~IsGlobalKey(key) /\ ~IsRoleKey(key)
RoleOf(key) == SubSeq(key, 1, Len(key) - 1)

\* the count of a role in spec.instances; 0 when the spec, spec.instances or
\* the role is missing
RoleCount(sp, role) ==
    IF sp.t = "obj" /\ sp.hasInstances
          /\ \E i \in 1..Len(sp.instances) : sp.instances[i].role = role
    THEN sp.instances[CHOOSE i \in 1..Len(sp.instances) :
                          sp.instances[i].role = role].count
    ELSE 0

\* `<role>1` .. `<role>n`
Numbered(role, n) == {role \o NumberToString(i) : i \in 1..n}
DeclaredKeys(decl) == {decl[i].key : i \in 1..Len(decl)}
BlockOf(decl, key) == decl[CHOOSE i \in 1..Len(decl) : decl[i].key = key].config
\* the pattern map without one of its keys, the others in their order
Without(decl, key) == SelectSeq(decl, LAMBDA e : e.key /= key)

RoleIdentities(decl, sp) ==
    UNION {Numbered(RoleOf(k), RoleCount(sp, RoleOf(k))) :
             k \in {x \in DeclaredKeys(decl) : IsRoleKey(x)}}
ExactIdentities(decl) == {k \in DeclaredKeys(decl) : IsExactKey(k)}

-----------------------------------------------------------------------------
(* C1 - C3: which identities exist                                         *)

C2_RoleExpansion ==
    outcome = "returned" =>
        \A k \in DeclaredKeys(instances) :
            IsRoleKey(k) /\ RoleCount(spec, RoleOf(k)) >= 1 =>
                LET n == RoleCount(spec, RoleOf(k))
                    rest == ResolveInstances(Without(instances, k), spec)
                IN  /\ Numbered(RoleOf(k), n) \subseteq Keys(resolved)
                    /\ Cardinality(Numbered(RoleOf(k), n)) = n
                    /\ rest.ok
                    /\ Keys(resolved) \ Keys(rest.val) \subseteq Numbered(RoleOf(k), n)

C2_Witness ==
    /\ outcome = "returned"
    /\ KeyIdxAll \in DeclaredKeys(instances)
    /\ KeyIdx3 \in DeclaredKeys(instances)
    /\ RoleCount(spec, <<"i">>) = MaxCount
    /\ Len(resolved) = MaxCount + 1

\* C3: a role-wildcard key whose role has no count, or a count that is zero
\* or negative, or whose spec or spec.instances is missing, contributes
\* nothing: the call ends as it ends without the key, with the same mapping
\* (no identity, no apps, files or datagen added), and the key's own block
\* raises no error whatever its shape.
C3_NoCountNoEffect ==
    \A k \in DeclaredKeys(instances) :
        IsRoleKey(k) /\ RoleCount(spec, RoleOf(k)) <= 0 =>
            LET rest == ResolveInstances(Without(instances, k), spec) IN
            /\ outcome = "returned" => rest.ok /\ resolved = rest.val
            /\ outcome = "threw" => ~rest.ok
            /\ DeclaredKeys(instances) = {k} => outcome /= "threw"

C3_Witness ==
    /\ outcome = "returned"
    /\ DeclaredKeys(instances) = {KeyIdxAll, KeyShAll, KeyIdx2}
    /\ BlockOf(instances, KeyShAll) = BlockScalarSource
    /\ BlockOf(instances, KeyIdxAll) = BlockGroups
    /\ RoleCount(spec, <<"s">>) = 0
    /\ spec = SpecOf(CountFor(<<"i">>, -1))
    /\ Len(resolved) = 1

-----------------------------------------------------------------------------
(* The normal forms of the accepted shapes, stated from the specification  *)

IsStringSeq(v) == v.t = "arr" /\ \A i \in 1..Len(v.a) : v.a[i].t = "str"
\* an object { source: sequence of strings, destination? }
IsGroup(v) == v.t = "obj" /\ IsStringSeq(v.a[1])
GroupRefs(g, default) ==
    [i \in 1..Len(g.a[1].a) |->
        [source |-> g.a[1].a[i],
         destination |-> IF g.a[2].t = "undef" THEN Str(default) ELSE g.a[2]]]

RECURSIVE FlattenGroups(_, _)
FlattenGroups(groups, default) ==
    IF Len(groups) = 0 THEN <<>>
    ELSE GroupRefs(groups[1], default) \o FlattenGroups(Tail(groups), default)

NormalApps(v) ==
    IF IsStringSeq(v)
    THEN [i \in 1..Len(v.a) |-> [source |-> v.a[i], destination |-> Str("apps")]]
    ELSE IF v.t = "arr" /\ \A i \in 1..Len(v.a) : IsGroup(v.a[i])
         THEN FlattenGroups(v.a, "apps")
         ELSE IF IsGroup(v) THEN GroupRefs(v, "apps") ELSE <<>>

NormalFiles(v) ==
    IF IsGroup(v) THEN GroupRefs(v, "system/local")
    ELSE IF v.t = "obj" /\ v.a[1].t = "str"
         THEN GroupRefs(Obj(Arr(<<v.a[1]>>), v.a[2]), "system/local")
         ELSE <<>>

\* a datagen assignment is [source, destination]; Absent stands for no
\* destination, and NoDatagen for no assignment at all
Absent == Str("<absent>")
NoDatagen == [source |-> <<>>, destination |-> Str("<none>")]
DeclaredDatagen(config) ==
    IF config.datagens.t /= "undef" THEN config.datagens ELSE config.datagen
DeclaresDatagen(config) ==
    IsStringSeq(DeclaredDatagen(config)) \/ IsGroup(DeclaredDatagen(config))
NormalDatagen(config) ==
    LET d == DeclaredDatagen(config) IN
    IF IsStringSeq(d) THEN [source |-> d.a, destination |-> Absent]
    ELSE [source |-> d.a[1].a,
          destination |-> IF d.a[2].t = "undef" THEN Absent ELSE d.a[2]]

\* the datagen slot of a resolved instance, read the same way
SlotOf(inst) ==
    IF inst.datagen.t = "null" THEN NoDatagen
    ELSE [source |-> inst.datagen.a[1].a,
          destination |-> IF inst.datagen.a[2].t \in {"undef", "null"}
                          THEN Absent ELSE inst.datagen.a[2]]

\* a non-global key matches an identity
Matches(key, id, sp) ==
    \/ IsExactKey(key) /\ key = id
    \/ IsRoleKey(key) /\ id \in Numbered(RoleOf(key), RoleCount(sp, RoleOf(key)))

\* the members of the pattern map that reach an identity, in the order the
\* claims give: the matching non-global keys as declared, then `*`
Reaching(decl, id, sp) ==
    SelectSeq(decl, LAMBDA e : Matches(e.key, id, sp))
        \o SelectSeq(decl, LAMBDA e : IsGlobalKey(e.key))

RECURSIVE ConcatApps(_)
ConcatApps(members) ==
    IF Len(members) = 0 THEN <<>>
    ELSE NormalApps(members[1].config.apps) \o ConcatApps(Tail(members))

RECURSIVE ConcatFiles(_)
ConcatFiles(members) ==
    IF Len(members) = 0 THEN <<>>
    ELSE NormalFiles(members[1].config.files) \o ConcatFiles(Tail(members))

RECURSIVE LastDatagen(_)
LastDatagen(members) ==
    IF Len(members) = 0 THEN NoDatagen
    ELSE IF DeclaresDatagen(members[Len(members)].config)
         THEN NormalDatagen(members[Len(members)].config)
         ELSE LastDatagen(SubSeq(members, 1, Len(members) - 1))

-----------------------------------------------------------------------------
(* C4, C5: accumulation of apps and files, the datagen slot                *)

\* C4: the apps list and the files list of every resolved identity are the
\* concatenation of the normalized apps (files) of the patterns matching it,
\* the role-wildcard and exact keys in declaration order first and the
\* global wildcard's last wherever `*` is declared; nothing is merged or
\* removed, duplicates included.
C4_AppendInOrder ==
    outcome = "returned" =>
        \A k \in 1..Len(resolved) :
            LET members == Reaching(instances, resolved[k].name, spec) IN
            /\ resolved[k].inst.apps = ConcatApps(members)
            /\ resolved[k].inst.files = ConcatFiles(members)

C4_Witness ==
    /\ outcome = "returned"
    /\ instances = <<[key |-> KeyGlobal, config |-> BlockLegacy],
                     [key |-> KeyIdx1, config |-> BlockGroups],
                     [key |-> KeyIdxAll, config |-> BlockLegacy]>>
    /\ Len(Get(resolved, KeyIdx1).apps) = 7
    /\ Get(resolved, KeyIdx1).apps[4] = Get(resolved, KeyIdx1).apps[6]

\* C5: the datagen slot of every resolved identity is the normalized datagen
\* (source and destination of one declaration) of the last pattern reaching
\* it that declares a datagen, in the order non-global keys as declared then
\* `*`; it is absent when none declares one.
C5_DatagenLastWins ==
    outcome = "returned" =>
        \A k \in 1..Len(resolved) :
            SlotOf(resolved[k].inst)
                = LastDatagen(Reaching(instances, resolved[k].name, spec))

C5_Witness ==
    /\ outcome = "returned"
    /\ instances = <<[key |-> KeyGlobal, config |-> BlockGroups],
                     [key |-> KeyIdxAll, config |-> BlockNoDest]>>
    /\ Has(resolved, KeyIdx1)
    /\ SlotOf(Get(resolved, KeyIdx1)) = [source |-> <<GenE>>, destination |-> Absent]

-----------------------------------------------------------------------------
(* C6, C7: shapes outside the accepted ones                                *)

\* C6: resolveInstances raises no error, whatever the shape of a block's
\* apps, files and datagen fields.
C6_NeverThrows == outcome /= "threw"

\* C7: an apps declaration that is none of the three accepted shapes
\* contributes no entry, so every apps list is the concatenation of the
\* normal forms of the accepted declarations reaching the identity, and every
\* entry has a string source and a string destination.
C7_AppsEntriesAreStrings ==
    outcome = "returned" =>
        \A k \in 1..Len(resolved) :
            /\ resolved[k].inst.apps
                   = ConcatApps(Reaching(instances, resolved[k].name, spec))
            /\ \A j \in 1..Len(resolved[k].inst.apps) :
                   /\ resolved[k].inst.apps[j].source.t = "str"
                   /\ resolved[k].inst.apps[j].destination.t = "str"

-----------------------------------------------------------------------------
(* C8 - C10: role and exact keys together, the global block, legacy apps   *)

Position(decl, key) == CHOOSE i \in 1..Len(decl) : decl[i].key = key
GlobalMembers(decl) == SelectSeq(decl, LAMBDA e : IsGlobalKey(e.key))

\* C8: an identity matched by a role-wildcard key and by an exact key of the
\* same name is one instance holding the apps and files of both blocks, the
\* two blocks' entries in the order the two keys are declared; the other
\* instances of the role, named by no exact key, hold the role block's
\* entries only (in both cases followed by the global block's, when `*` is
\* declared).
C8_RoleAndExactMerge ==
    outcome = "returned" =>
        \A r, e \in DeclaredKeys(instances) :
            /\ IsRoleKey(r) /\ IsExactKey(e)
            /\ e \in Numbered(RoleOf(r), RoleCount(spec, RoleOf(r)))
            => LET role == <<[key |-> r, config |-> BlockOf(instances, r)]>>
                   exact == <<[key |-> e, config |-> BlockOf(instances, e)]>>
                   both == IF Position(instances, r) < Position(instances, e)
                           THEN role \o exact ELSE exact \o role
                   global == GlobalMembers(instances)
               IN  /\ Cardinality({k \in 1..Len(resolved) : resolved[k].name = e}) = 1
                   /\ Get(resolved, e).apps = ConcatApps(both \o global)
                   /\ Get(resolved, e).files = ConcatFiles(both \o global)
                   /\ \A id \in Numbered(RoleOf(r), RoleCount(spec, RoleOf(r)))
                               \ ExactIdentities(instances) :
                          /\ Has(resolved, id)
                          /\ Get(resolved, id).apps = ConcatApps(role \o global)
                          /\ Get(resolved, id).files = ConcatFiles(role \o global)

C8_Witness ==
    /\ outcome = "returned"
    /\ instances = <<[key |-> KeyIdx2, config |-> BlockFiles],
                     [key |-> KeyIdxAll, config |-> BlockObject]>>
    /\ Len(resolved) = 2
    /\ Len(Get(resolved, KeyIdx2).files) = 2
    /\ Get(resolved, KeyIdx2).files[1].source = FileG
    /\ Len(Get(resolved, KeyIdx1).files) = 1

\* C9: when `*` is declared, wherever it is declared, every identity of the
\* first pass receives the global block's normalized apps and files exactly
\* once each: the mapping is the mapping resolved without `*`, each apps and
\* files list extended by the global block's entries, one time.
C9_GlobalOnceEach ==
    outcome = "returned" /\ KeyGlobal \in DeclaredKeys(instances) =>
        LET rest == ResolveInstances(Without(instances, KeyGlobal), spec)
            global == BlockOf(instances, KeyGlobal)
        IN  /\ rest.ok
            /\ Len(resolved) = Len(rest.val)
            /\ \A k \in 1..Len(resolved) :
                   /\ resolved[k].name = rest.val[k].name
                   /\ resolved[k].inst.apps
                          = rest.val[k].inst.apps \o NormalApps(global.apps)
                   /\ resolved[k].inst.files
                          = rest.val[k].inst.files \o NormalFiles(global.files)

C9_Witness ==
    /\ outcome = "returned"
    /\ instances = <<[key |-> KeyIdx1, config |-> BlockObject],
                     [key |-> KeyGlobal, config |-> BlockGroups],
                     [key |-> KeyIdxAll, config |-> BlockLegacy]>>
    /\ Len(resolved) = MaxCount
    /\ Len(Get(resolved, KeyIdx1).apps) = 7
    /\ Len(Get(resolved, KeyIdx1).files) = 3

\* the pattern map with every legacy apps sequence s rewritten as the object
\* { source: s, destination } (destination omitted when it is Undef)
AsObjectForm(decl, destination) ==
    [i \in 1..Len(decl) |->
        IF IsStringSeq(decl[i].config.apps)
        THEN [decl[i] EXCEPT !.config.apps = Obj(decl[i].config.apps, destination)]
        ELSE decl[i]]

\* C10: a block with apps: s, s a sequence of strings, resolves on every
\* instance to the same entries as the block with
\* apps: { source: s, destination: "apps" } and as that object without its
\* destination.
C10_LegacyEquivalence ==
    outcome = "returned" =>
        /\ ResolveInstances(AsObjectForm(instances, Str("apps")), spec) = Ok(resolved)
        /\ ResolveInstances(AsObjectForm(instances, Undef), spec) = Ok(resolved)

C10_Witness ==
    /\ outcome = "returned"
    /\ instances = <<[key |-> KeyIdxAll,
                      config |-> Block(Arr(<<Str(""), AppA>>), Undef, Undef, Undef)],
                     [key |-> KeyGlobal,
                      config |-> Block(Arr(<<>>), Undef, Undef, Undef)],
                     [key |-> KeyIdx2,
                      config |-> Block(Arr(<<AppA>>), Undef, Undef, Undef)]>>
    /\ Len(Get(resolved, KeyIdx2).apps) = 3
    /\ Get(resolved, KeyIdx2).apps[1] = [source |-> Str(""), destination |-> Str("apps")]

-----------------------------------------------------------------------------
(* C11: apps as a sequence of objects                                      *)

\* Sequences of objects: an object without a source first, in the middle
\* and last, a source of no strings, a source repeating a string, no objects.
GroupSeqs ==
    {<<Obj(Arr(<<AppA>>), Str("deployment-apps")), Obj(Arr(<<AppC, AppB>>), Undef)>>,
     <<Obj(Undef, Str("manager-apps")), Obj(Arr(<<AppB>>), Str("shcluster/apps"))>>,
     <<Obj(Arr(<<AppA>>), Undef), Obj(Undef, Undef),
       Obj(Arr(<<AppB, AppB>>), Str("manager-apps"))>>,
     <<Obj(Arr(<<>>), Str("apps")), Obj(Arr(<<AppC>>), Str("apps")), Obj(Undef, Undef)>>,
     <<>>}
GroupKeys == {KeyGlobal, KeyIdxAll, KeyIdx1}
GroupBlocks == {Block(Arr(g), Undef, Undef, Undef) : g \in GroupSeqs}
GroupSpecs == {SpecOf(CountFor(<<"i">>, n)) : n \in {1, MaxCount}}

InitGroups == InitWith(GroupKeys, GroupBlocks, GroupSpecs)
SpecGroups == InitGroups /\ [][Next]_vars

\* what one object of the sequence contributes: nothing without a source
ObjectRefs(g) == IF g.a[1].t = "undef" THEN <<>> ELSE GroupRefs(g, "apps")

RECURSIVE SequenceRefs(_)
SequenceRefs(groups) ==
    IF Len(groups) = 0 THEN <<>>
    ELSE ObjectRefs(groups[1]) \o SequenceRefs(Tail(groups))

RECURSIVE ConcatSequences(_)
ConcatSequences(members) ==
    IF Len(members) = 0 THEN <<>>
    ELSE SequenceRefs(members[1].config.apps.a) \o ConcatSequences(Tail(members))

\* C11: when apps is a sequence of objects, every string of every object's
\* source becomes one entry carrying that object's destination, "apps" when
\* the object has none, in the order of the objects and of the sources within
\* each; an object without a source adds nothing and the objects around it
\* still add theirs.
C11_SequenceOfObjects ==
    outcome = "returned" =>
        \A k \in 1..Len(resolved) :
            resolved[k].inst.apps =
                ConcatSequences(Reaching(instances, resolved[k].name, spec))

C11_Witness ==
    /\ outcome = "returned"
    /\ instances = <<[key |-> KeyGlobal,
                      config |-> Block(Arr(<<Obj(Arr(<<AppA>>), Undef), Obj(Undef, Undef),
                                             Obj(Arr(<<AppB, AppB>>), Str("manager-apps"))>>),
                                       Undef, Undef, Undef)],
                     [key |-> KeyIdx1,
                      config |-> Block(Arr(<<Obj(Undef, Str("manager-apps")),
                                             Obj(Arr(<<AppB>>), Str("shcluster/apps"))>>),
                                       Undef, Undef, Undef)]>>
    /\ Get(resolved, KeyIdx1).apps =
           <<[source |-> AppB, destination |-> Str("shcluster/apps")],
             [source |-> AppA, destination |-> Str("apps")],
             [source |-> AppB, destination |-> Str("manager-apps")],
             [source |-> AppB, destination |-> Str("manager-apps")]>>

-----------------------------------------------------------------------------
(* C12: the files block                                                    *)

\* files with a scalar source (the empty string too), a sequence source (of
\* two, of none, with a non-string element), no source, a source of another
\* shape (number, null, object), and files that is not an object at all.
FilesValues ==
    {Obj(FileF, Undef),
     Obj(Str(""), Str("local")),
     Obj(Arr(<<FileF, FileG>>), Str("local")),
     Obj(Arr(<<FileG, Num("7")>>), Undef),
     Obj(Arr(<<>>), Str("local")),
     Obj(Undef, Str("local")),
     Obj(Num("7"), Undef),
     Obj(Null, Str("local")),
     Obj(Obj(Arr(<<FileF>>), Undef), Undef),
     Arr(<<FileF>>),
     FileF}
FilesKeys == {KeyGlobal, KeyIdxAll, KeyIdx1}
FilesBlocks == {Block(Undef, f, Undef, Undef) : f \in FilesValues}
FilesSpecs == {SpecOf(CountFor(<<"i">>, MaxCount))}

InitFiles == InitWith(FilesKeys, FilesBlocks, FilesSpecs)
SpecFiles == InitFiles /\ [][Next]_vars

\* what one files block contributes
FileRefs(v) ==
    LET destination == IF v.a[2].t = "undef" THEN Str("system/local") ELSE v.a[2] IN
    IF v.t /= "obj" THEN <<>>
    ELSE IF v.a[1].t = "str" THEN <<[source |-> v.a[1], destination |-> destination]>>
         ELSE IF v.a[1].t = "arr"
              THEN [i \in 1..Len(v.a[1].a) |->
                       [source |-> v.a[1].a[i], destination |-> destination]]
              ELSE <<>>

RECURSIVE ConcatFileRefs(_)
ConcatFileRefs(members) ==
    IF Len(members) = 0 THEN <<>>
    ELSE FileRefs(members[1].config.files) \o ConcatFileRefs(Tail(members))

\* C12: a files block with a scalar string source adds exactly one entry, one
\* with a sequence source adds one entry per element in order, each carrying
\* the block's destination, "system/local" when it has none; a files block
\* without a source, or with a source of any other shape, adds nothing.
C12_FilesBlock ==
    outcome = "returned" =>
        \A k \in 1..Len(resolved) :
            resolved[k].inst.files =
                ConcatFileRefs(Reaching(instances, resolved[k].name, spec))

C12_Witness ==
    /\ outcome = "returned"
    /\ instances = <<[key |-> KeyIdxAll, config |-> Block(Undef, Obj(FileF, Undef), Undef, Undef)],
                     [key |-> KeyIdx1,
                      config |-> Block(Undef, Obj(Num("7"), Undef), Undef, Undef)],
                     [key |-> KeyGlobal,
                      config |-> Block(Undef, Obj(Arr(<<FileF, FileG>>), Str("local")),
                                       Undef, Undef)]>>
    /\ Get(resolved, KeyIdx1).files =
           <<[source |-> FileF, destination |-> Str("system/local")],
             [source |-> FileF, destination |-> Str("local")],
             [source |-> FileG, destination |-> Str("local")]>>

-----------------------------------------------------------------------------
(* C13: the two spellings of the datagen field                             *)

\* datagens absent, null, the empty string, an empty sequence, an object of
\* no recognized shape and a sequence of one string, each beside a datagen
\* that is absent or a sequence of one string.
AliasDatagens == {Undef, Null, Str(""), Arr(<<>>), Obj(Undef, Undef), Arr(<<GenD>>)}
AliasDatagen == {Undef, Arr(<<GenE>>)}
AliasKeys == {KeyGlobal, KeyIdxAll, KeyIdx1}
AliasBlocks == {Block(Undef, Undef, d, ds) : d \in AliasDatagen, ds \in AliasDatagens}
AliasSpecs == {SpecOf(CountFor(<<"i">>, 1))}

InitAlias == InitWith(AliasKeys, AliasBlocks, AliasSpecs)
SpecAlias == InitAlias /\ [][Next]_vars

\* the pattern map with datagen taken out of every block that defines datagens
WithoutShadowed(decl) ==
    [i \in 1..Len(decl) |->
        IF decl[i].config.datagens.t /= "undef"
        THEN [decl[i] EXCEPT !.config.datagen = Undef]
        ELSE decl[i]]

\* C13: a block that defines datagens resolves as if it had no datagen field,
\* whatever the datagens value is (empty, null and unrecognized values
\* included): the mapping returned is the one returned for the pattern map
\* with datagen removed from every such block.
C13_DatagensAloneDecides ==
    outcome = "returned" =>
        ResolveInstances(WithoutShadowed(instances), spec) = Ok(resolved)

-----------------------------------------------------------------------------
(* C14: the datagen value by shape                                         *)

\* datagen as a sequence of strings with placeholders, as an object with a
\* source sequence (with and without destination), and in other shapes: an
\* object with a scalar source, an object without source, a scalar, a
\* number, a sequence holding a number.
ShapeDatagen ==
    {Undef,
     Arr(<<Str("TBD"), Str(""), GenD>>),
     Obj(Arr(<<GenE>>), Str("/opt/e")),
     Obj(Arr(<<GenD>>), Undef),
     Obj(GenD, Str("/opt/d")),
     Obj(Undef, Str("/opt/d")),
     Str("TBD"),
     Num("7"),
     Arr(<<Num("7")>>)}
ShapeKeys == {KeyGlobal, KeyIdxAll, KeyIdx1}
ShapeBlocks == {Block(Undef, Undef, d, Undef) : d \in ShapeDatagen}
ShapeSpecs == {SpecOf(CountFor(<<"i">>, 1))}

InitShape == InitWith(ShapeKeys, ShapeBlocks, ShapeSpecs)
SpecShape == InitShape /\ [][Next]_vars

\* a slot as [source, destination]: NoSlot for none, Absent for no destination
NoSlot == [source |-> Undef, destination |-> Str("<none>")]
RawSlot(inst) ==
    IF inst.datagen.t = "null" THEN NoSlot
    ELSE [source |-> inst.datagen.a[1],
          destination |-> IF inst.datagen.a[2].t \in {"undef", "null"}
                          THEN Absent ELSE inst.datagen.a[2]]

\* the slot after one block, by the shape of its datagen value
SlotAfter(slot, d) ==
    IF IsStringSeq(d) THEN [source |-> d, destination |-> Absent]
    ELSE IF d.t = "obj" /\ IsStringSeq(d.a[1])
         THEN [source |-> d.a[1],
               destination |-> IF d.a[2].t = "undef" THEN Absent ELSE d.a[2]]
         ELSE slot

RECURSIVE SlotAfterAll(_, _)
SlotAfterAll(slot, members) ==
    IF Len(members) = 0 THEN slot
    ELSE SlotAfterAll(SlotAfter(slot, DeclaredDatagen(members[1].config)), Tail(members))

\* C14: applying a pattern whose datagen is a sequence of strings sets the
\* slot to that sequence, placeholders and empty strings kept, without
\* destination; one whose datagen is an object with a source sequence sets it
\* to that source with the object's destination or none; a datagen of any
\* other shape leaves the slot as it was before the pattern.
C14_DatagenByShape ==
    outcome = "returned" =>
        \A k \in 1..Len(resolved) :
            RawSlot(resolved[k].inst) =
                SlotAfterAll(NoSlot, Reaching(instances, resolved[k].name, spec))

-----------------------------------------------------------------------------
(* C15: the order of the identities in the returned mapping                *)

\* Keys of every kind, among them an exact key naming an identity of a role
\* and an exact key that is integer-like.
Key7 == <<"7">>
OrderKeys == {KeyGlobal, KeyShAll, KeyIdxAll, KeyIdx2, Key7}
OrderBlocks == {EmptyBlock, BlockLegacy}
OrderSpecs == {SpecOf(CountFor(<<"i">>, MaxCount) \o CountFor(<<"s">>, 1))}

InitOrder == InitWith(OrderKeys, OrderBlocks, OrderSpecs)
SpecOrder == InitOrder /\ [][Next]_vars

\* Array.from(resolvedInstances.keys()): the identities in iteration order
KeysInOrder(m) == [k \in 1..Len(m) |-> m[k].name]

\* names appended to an order unless already in it, ascending from i to n
RECURSIVE CreateNumbered(_, _, _, _)
CreateNumbered(order, role, i, n) ==
    IF i > n THEN order
    ELSE LET name == role \o NumberToString(i) IN
         CreateNumbered(IF \E j \in 1..Len(order) : order[j] = name
                        THEN order ELSE Append(order, name),
                        role, i + 1, n)

\* the order of first creation, the keys taken as the manifest declares them
RECURSIVE CreationOrder(_, _, _)
CreationOrder(order, decl, sp) ==
    IF Len(decl) = 0 THEN order
    ELSE LET key == decl[1].key IN
         CreationOrder(
             IF IsGlobalKey(key) THEN order
             ELSE IF IsRoleKey(key)
                  THEN CreateNumbered(order, RoleOf(key), 1, RoleCount(sp, RoleOf(key)))
                  ELSE IF \E j \in 1..Len(order) : order[j] = key
                       THEN order ELSE Append(order, key),
             Tail(decl), sp)

\* C15: the identities of the returned mapping iterate in the order of their
\* first creation, the non-global keys taken in the order the manifest
\* declares them: a role-wildcard key creates <role>1..<role>n ascending, an
\* exact key creates its identity at its own place, and an identity reached
\* again stays where it was.
C15_CreationOrder ==
    outcome = "returned" => KeysInOrder(resolved) = CreationOrder(<<>>, instances, spec)

-----------------------------------------------------------------------------
(* C16: the three kinds of key                                             *)

\* Keys with `*` elsewhere than at the end only (i*x), and both at the start
\* and at the end (*i*), beside keys of the three plain kinds; counts for the
\* role i and for the name left of i*x once its `*` is taken out.
KeyMidStar == <<"i", "*", "x">>
KeyTwoStars == <<"*", "i", "*">>
KindKeys == {KeyGlobal, KeyIdxAll, KeyIdx1, KeyMidStar, KeyTwoStars}
KindBlocks == {EmptyBlock, BlockLegacy}
KindSpecs ==
    {SpecOf(CountFor(<<"i">>, 1)),
     SpecOf(CountFor(<<"i">>, MaxCount) \o CountFor(<<"i", "x">>, 1))}

InitKind == InitWith(KindKeys, KindBlocks, KindSpecs)
SpecKind == InitKind /\ [][Next]_vars

\* C16: a key is of exactly one kind, and is treated as that kind: `*` alone
\* is global; a key ending in `*` is a role wildcard whose role is the text
\* before that final `*`, giving <role>1..<role>n; every other key, one with
\* `*` elsewhere than at its end included, is exact: it names the one
\* identity spelled like the key and is not expanded.
C16_ThreeKinds ==
    outcome = "returned" =>
        /\ \A i \in 1..Len(instances) :
               LET key == instances[i].key IN
               /\ IsExactKey(key) => key \in Keys(resolved)
               /\ IsRoleKey(key) =>
                      Numbered(RoleOf(key), RoleCount(spec, RoleOf(key))) \subseteq Keys(resolved)
        /\ \A name \in Keys(resolved) :
               \E i \in 1..Len(instances) :
                   /\ ~IsGlobalKey(instances[i].key)
                   /\ Matches(instances[i].key, name, spec)

-----------------------------------------------------------------------------
(* C17: placeholders among the datagen entries                             *)

\* a step of the run was performed and returned
Performed(step) ==
    /\ \E i \in 1..Len(log) : log[i] = step
    /\ ~\E i \in 1..(Len(log) - 1) : log[i] = step /\ log[i + 1] = "logger.error"

\* the sources handed to the datagen copy step for an instance, in order
DatagenHanded(name) ==
    LET handed == SelectSeq(calls, LAMBDA c : c.step = "copyDatagen" /\ c.instance = name) IN
    [i \in 1..Len(handed) |-> handed[i].source]

IsPlaceholderEntry(e) == e \in {Str("TBD"), Str("")}

\* C17: the resolver keeps the placeholder entries of a datagen source in the
\* instance's slot; generateApps hands to the datagen copy step exactly the
\* entries of that source that are neither `TBD` nor empty, in the order of
\* the source, and makes no copy call for a placeholder.
C17_PlaceholdersSkipped ==
    /\ outcome = "returned" =>
           \A k \in 1..Len(resolved) :
               RawSlot(resolved[k].inst) =
                   SlotAfterAll(NoSlot, Reaching(instances, resolved[k].name, spec))
    /\ Performed("generateApps") =>
           \A k \in 1..Len(resolved) :
               DatagenHanded(resolved[k].name) =
                   IF resolved[k].inst.datagen.t = "null" THEN <<>>
                   ELSE SelectSeq(resolved[k].inst.datagen.a[1].a,
                                  LAMBDA e : ~IsPlaceholderEntry(e))

C17_Witness ==
    /\ Performed("generateApps")
    /\ instances = <<[key |-> KeyIdxAll, config |-> BlockPlaceholders]>>
    /\ Get(resolved, KeyIdx1).datagen.a[1].a = <<Str("TBD"), GenD, Str(""), GenE>>
    /\ DatagenHanded(KeyIdx1) = <<GenD, GenE>>

-----------------------------------------------------------------------------
(* C18: a manifest that cannot be loaded                                   *)

\* a step of the run was entered, whether it returned or threw
Entered(step) == \E i \in 1..Len(log) : log[i] = step

\* the manifest is missing, is no JSON once comments and trailing commas are
\* taken out, or its root object has no instances member
CannotLoad(file) ==
    \/ ~file.exists
    \/ ~JsonParses(RemoveTrailingCommas(StripComments(file.text)))
    \/ RootMember(RemoveTrailingCommas(StripComments(file.text)), "instances") = ""

\* C18: when the manifest does not exist, does not parse or has no instances
\* member, the run enters no resolution, print, generation or packaging
\* step, and when it has ended it has ended through the error report and
\* process.exit(1).
C18_FatalManifest ==
    CannotLoad(manifest) =>
        /\ \A step \in {"resolveInstances", "print", "generateApps",
                        "packageApps", "packageInstances"} : ~Entered(step)
        /\ pc /= "done"
        /\ pc = "exit1" =>
               /\ Len(log) >= 3
               /\ SubSeq(log, Len(log) - 1, Len(log)) = <<"logger.error", "process.exit(1)">>
               /\ log[Len(log) - 2] \in {"updateManifestDate", "loadManifest"}

C18_Witness ==
    /\ pc = "exit1"
    /\ manifest.exists
    /\ JsonParses(manifest.text)
    /\ RootMember(manifest.text, "instances") = ""
    /\ options.tar = "all"
    /\ log = <<"updateManifestDate", "cleanDist", "loadManifest",
               "logger.error", "process.exit(1)">>

-----------------------------------------------------------------------------
(* C19: the updated member of the metadata                                 *)

\* the document a text was written from
DocumentOf(text) == CHOOSE doc \in DocumentsDrawn : Render(doc) = text

IsUpdatedMember(mb) == mb.k = "field" /\ mb.n = "updated"

\* a sequence with one more element at place i
InsertAt(ms, i, mb) == SubSeq(ms, 1, i - 1) \o <<mb>> \o SubSeq(ms, i, Len(ms))

\* the documents that differ from doc in nothing but the updated member of
\* the metadata, which is the date: its value replaced where it stands, or
\* the member added to the metadata when there was none
WithUpdated(doc, date) ==
    IF \E i \in 1..Len(doc.metadata) : IsUpdatedMember(doc.metadata[i])
    THEN {Document(TRUE,
                   [i \in 1..Len(doc.metadata) |->
                       IF IsUpdatedMember(doc.metadata[i])
                       THEN StringMember("updated", date) ELSE doc.metadata[i]],
                   doc.body)}
    ELSE {Document(TRUE, InsertAt(doc.metadata, i, StringMember("updated", date)), doc.body) :
             i \in 1..(Len(doc.metadata) + 1)}

\* C19: when updateManifestDate returns, the text of the manifest is the text
\* of the same document with the metadata's updated member equal to the date
\* used (the custom date if given, else the current date), whether the
\* member was there before, with any value, or had to be added; nothing else
\* of the text has changed.
C19_UpdatedIsDate ==
    [][(pc = "updateManifestDate" /\ pc' = "cleanDist") =>
           manifest'.text \in {Render(doc) :
                                  doc \in WithUpdated(DocumentOf(manifest.text),
                                                      IF options.date /= "" THEN options.date
                                                      ELSE Today)}]_vars

-----------------------------------------------------------------------------
(* C20: the dry run                                                        *)

\* C20: with --dry-run the run enters neither generateApps nor packageApps
\* nor packageInstances and makes no copy call, whatever --tar says, and the
\* print of the resolved configuration is the last thing it does.
C20_DryRunStops ==
    options.dryRun =>
        /\ \A step \in {"generateApps", "packageApps", "packageInstances"} : ~Entered(step)
        /\ calls = <<>>
        /\ Entered("print") => pc = "done" /\ log[Len(log)] = "print"

C20_Witness ==
    /\ options.dryRun
    /\ options.tar = "all"
    /\ pc = "done"
    /\ Has(resolved, KeyLm1)
    /\ Len(Get(resolved, KeyLm1).apps) = 4
    /\ log = <<"updateManifestDate", "cleanDist", "loadManifest", "resolveInstances", "print">>

-----------------------------------------------------------------------------
(* C21: packaging and the original directories                             *)

\* C21: a packaging step never ends the run with an error; whatever it
\* removes from the output directory it removes with --clean set and with
\* the archive of the directory removed in place: in packageApps the archive
\* of the app directory, in packageInstances the archive of the instance
\* directory.  A directory whose archive was not made stays as it was.
C21_PackagingKeepsOriginal ==
    [][(pc \in {"packageApps", "packageInstances"} /\ pc' /= pc) =>
           /\ pc' /= "exit1"
           /\ \A c \in dist.copied \ dist'.copied :
                  /\ options.clean
                  /\ IF pc = "packageApps" THEN TargetOf(c) \in dist'.archives
                     ELSE c.instance \in dist'.tarballs
           /\ \A n \in dist.dirs \ dist'.dirs :
                  options.clean /\ pc = "packageInstances" /\ n \in dist'.tarballs
           /\ \A a \in dist.archives \ dist'.archives :
                  options.clean /\ pc = "packageInstances" /\ a.instance \in dist'.tarballs
           /\ ~options.clean => dist'.dirs = dist.dirs /\ dist'.copied = dist.copied]_vars

\* --clean --tar apps: one app archive made and its directory removed, another
\* app directory left in place because its archive failed
C21_Witness ==
    /\ pc = "done"
    /\ options.clean
    /\ options.tar = "apps"
    /\ Entered("packageApps")
    /\ Archive(KeyLm1, "deployment-apps", "a") \in dist.archives
    /\ Copy(KeyLm1, "deployment-apps", "./apps/a") \notin dist.copied
    /\ Archive(KeyLm1, "shcluster", "apps") \notin dist.archives
    /\ Copy(KeyLm1, "shcluster/apps", "./apps/b") \in dist.copied

-----------------------------------------------------------------------------
(* C22: comments in the manifest                                           *)

\* the text written without its comments
Uncommented(text) == SelectSeq(text, LAMBDA t : t.k \notin {"comment", "newline"})

HasComment(text) == \E i \in 1..Len(text) : text[i].k = "comment"

\* C22: once loadManifest has run on a manifest with comments, none of them
\* within a string, it has parsed what the manifest is without its comments:
\* the cleaned content is the text with the comments taken out and the
\* strings as they were, and the load has failed only if the load of the
\* manifest written without comments fails.
C22_CommentsRemoved ==
    (Entered("loadManifest") /\ manifest.exists /\ HasComment(manifest.text)) =>
        /\ StripComments(manifest.text) = Uncommented(manifest.text)
        /\ Performed("loadManifest")
               = LoadManifest(File(TRUE, Uncommented(manifest.text))).ok

-----------------------------------------------------------------------------
(* C23: the order of the steps of a run                                    *)

StepOrder ==
    <<"updateManifestDate", "cleanDist", "loadManifest", "resolveInstances",
      "generateApps", "packageApps", "packageInstances">>

\* the steps entered so far, in the order they were entered
StepsEntered ==
    SelectSeq(log, LAMBDA s : s \in {StepOrder[i] : i \in 1..Len(StepOrder)})

Rank(step) == CHOOSE i \in 1..Len(StepOrder) : StepOrder[i] = step

\* C23: the steps entered so far stand in the fixed order, none twice; none
\* of the first five is entered before all those ahead of it, and packaging
\* only after generation; generation begins with no output directory there;
\* and when a run with generation is done the output directory holds
\* directories, copies and archives of identities of the resolved mapping
\* only.
C23_FixedOrder ==
    /\ \A i, j \in 1..Len(StepsEntered) :
           i < j => Rank(StepsEntered[i]) < Rank(StepsEntered[j])
    /\ \A i \in 1..Len(StepsEntered) :
           Rank(StepsEntered[i]) <= 5 => Rank(StepsEntered[i]) = i
    /\ \A i \in 1..Len(StepsEntered) : Rank(StepsEntered[i]) > 5 => i > 5
    /\ pc = "generateApps" => ~dist.exists /\ dist.dirs = {} /\ dist.copied = {}
    /\ (pc = "done" /\ Entered("generateApps")) =>
           /\ dist.exists
           /\ dist.dirs \subseteq Keys(resolved)
           /\ dist.tarballs \subseteq Keys(resolved)
           /\ \A c \in dist.copied \cup dist.archives : c.instance \in Keys(resolved)
           /\ ~options.clean => dist.dirs = Keys(resolved)

C23_Witness ==
    /\ pc = "done"
    /\ log = StepOrder
    /\ ~options.clean
    /\ dist.dirs = {KeyIdx1, <<"i", "2">>}
    /\ dist.tarballs = dist.dirs
    /\ dist.archives /= {}

-----------------------------------------------------------------------------
(* C24: one block, declared in the three ways                              *)

\* One role of count 1, so that `i*`, `i1` and `*` all reach the identity i1.
\* Blocks of every form of apps, files and datagen, and one that throws.
WaysKeys == {KeyIdxAll, KeyIdx1, KeyGlobal}
WaysBlocks ==
    {EmptyBlock, BlockLegacy, BlockObject, BlockNoDest, BlockGroups, BlockFiles,
     BlockScalarSource}
WaysSpecs == {SpecOf(CountFor(<<"i">>, 1))}

InitWays == InitWith(WaysKeys, WaysBlocks, WaysSpecs)
SpecWays == InitWays /\ [][Next]_vars

\* what a call returns, as far as a caller can tell
Returned(decl, sp) ==
    LET r == ResolveInstances(decl, sp) IN
    IF r.ok THEN [ok |-> TRUE, val |-> r.val] ELSE [ok |-> FALSE, val |-> <<>>]

\* the same blocks in the same order, the role key and the exact key exchanged
Exchanged(decl) ==
    [k \in 1..Len(decl) |->
        [key |-> IF decl[k].key = KeyIdxAll THEN KeyIdx1
                 ELSE IF decl[k].key = KeyIdx1 THEN KeyIdxAll ELSE decl[k].key,
         config |-> decl[k].config]]

\* a map of one specific key and `*`: the block of `*` declared last under
\* the specific key that is free
GlobalRekeyed(decl) ==
    LET g == CHOOSE k \in 1..Len(decl) : decl[k].key = KeyGlobal
        s == CHOOSE k \in 1..Len(decl) : decl[k].key /= KeyGlobal
    IN  <<decl[s],
          [key |-> IF decl[s].key = KeyIdx1 THEN KeyIdxAll ELSE KeyIdx1,
           config |-> decl[g].config]>>

\* C24: with a role of count 1, the call returns the same mapping (or throws
\* alike) when the blocks declared under the role key and under the exact key
\* change places, and when the block declared under `*` is declared instead,
\* after the other block, under the role key or the exact key.
C24_SameNormalization ==
    outcome /= "pending" =>
        /\ (outcome = "returned") = Returned(instances, spec).ok
        /\ outcome = "returned" => resolved = Returned(instances, spec).val
        /\ Returned(Exchanged(instances), spec) = Returned(instances, spec)
        /\ (Len(instances) = 2 /\ HasGlobal(instances)) =>
               Returned(GlobalRekeyed(instances), spec) = Returned(instances, spec)

\* a block with co-located app groups, files and a datagen object reaches i1
\* through `*`, after a block declared under the role key
C24_Witness ==
    /\ outcome = "returned"
    /\ instances = <<[key |-> KeyIdxAll, config |-> BlockNoDest],
                     [key |-> KeyGlobal, config |-> BlockGroups]>>
    /\ Len(Get(resolved, KeyIdx1).apps) = 4
    /\ Len(Get(resolved, KeyIdx1).files) = 2
    /\ Get(resolved, KeyIdx1).datagen = Obj(Arr(<<GenE>>), Undef)

-----------------------------------------------------------------------------
(* C25: the inputs of resolveInstances after the call                      *)

-----------------------------------------------------------------------------
(* C26: what a dry run leaves behind                                       *)

\* C26: no step of a run with --dry-run changes the file system: the text of
\* the manifest stays as it is, and an output directory that is there stays
\* there with what it holds.
C26_DryRunLeavesFiles ==
    [][options.dryRun =>
           /\ manifest' = manifest
           /\ dist.exists => dist' = dist]_vars

====
